---- MODULE Spec2Model ----
(***************************************************************************)
(* A model of main.py: the widget registry filled at import time, the     *)
(* option lister (fetch_options_sync / get_unique_components_from_csv)    *)
(* and the three implementations of the CSV indicator pipeline            *)
(* (ipo_index_widget, consumer_confidence_widget and the endpoint_logic   *)
(* built by create_format1_indicator_endpoint_logic).                     *)
(*                                                                         *)
(* A Python str is a sequence of one-character strings, so that strip(),  *)
(* replace(), title(), float() and the ordering of labels are computed    *)
(* character by character.  Column names, endpoint names and exception    *)
(* names are never compared with data and are plain TLA+ strings.         *)
(***************************************************************************)
EXTENDS Integers, Sequences, FiniteSets, TLC

VARIABLES
    pc,         \* index in ImportOrder of the next module-level block to run
    importExc,  \* the exception that aborted the import of main.py, or "none"
    WIDGETS,    \* the registry: endpoint -> widget_config
    options,    \* the module globals chemicals_options, ..., war_options
    optFetched, \* the response each call of fetch_options_sync got
    lister,     \* the last direct call of get_unique_components_from_csv
    reqs,       \* the request handlers in flight
    upstream,   \* what a GET of each CSV URL currently yields
    api,        \* what a GET of https://api.llama.fi/v2/chains currently yields
    published,  \* the last response of /, /widgets.json or /apps.json
    registration \* the last application of register_widget to a config that
                \* is not one of main.py's own, and the last direct call of
                \* a function register_widget returned

vars == <<pc, importExc, WIDGETS, options, optFetched, lister, reqs, upstream, api, published, registration>>

----------------------------------------------------------------------------
(* Bounds of the model *)

\* data rows of an upstream CSV in the extraction inputs
MaxRows == 2
\* data rows of an upstream CSV in the inputs of the sample list
MaxSampleRows == 7
\* data rows of an upstream CSV in the option-lister inputs
MaxOptRows == 3
\* requests in flight at the same time in the server specification
MaxReqs == 2

----------------------------------------------------------------------------
(* Python values *)

\* None: different from every str (a str holds one-character strings only)
None == <<"None">>

Range(f) == {f[i] : i \in DOMAIN f}

SetMax(S) == CHOOSE x \in S : \A y \in S : y <= x

LowerLetters ==
    <<"a", "b", "c", "d", "e", "f", "g", "h", "i", "j", "k", "l", "m",
      "n", "o", "p", "q", "r", "s", "t", "u", "v", "w", "x", "y", "z">>

UpperLetters ==
    <<"A", "B", "C", "D", "E", "F", "G", "H", "I", "J", "K", "L", "M",
      "N", "O", "P", "Q", "R", "S", "T", "U", "V", "W", "X", "Y", "Z">>

DigitChars == <<"0", "1", "2", "3", "4", "5", "6", "7", "8", "9">>

IndexIn(seq, c) == CHOOSE i \in 1..Len(seq) : seq[i] = c

IsLower(c) == c \in Range(LowerLetters)
IsUpper(c) == c \in Range(UpperLetters)
IsCased(c) == IsLower(c) \/ IsUpper(c)
IsDigit(c) == c \in Range(DigitChars)
IsSpace(c) == c \in {" ", "\t"}

ToUpper(c) == IF IsLower(c) THEN UpperLetters[IndexIn(LowerLetters, c)] ELSE c
ToLower(c) == IF IsUpper(c) THEN LowerLetters[IndexIn(UpperLetters, c)] ELSE c

\* ord(c) of the characters the model uses
Ord(c) ==
    IF c = "\t" THEN 9
    ELSE IF c = " " THEN 32
    ELSE IF c = "+" THEN 43
    ELSE IF c = "-" THEN 45
    ELSE IF IsDigit(c) THEN 47 + IndexIn(DigitChars, c)
    ELSE IF IsUpper(c) THEN 64 + IndexIn(UpperLetters, c)
    ELSE IF c = "_" THEN 95
    ELSE IF IsLower(c) THEN 96 + IndexIn(LowerLetters, c)
    ELSE 127

\* a < b on str: lexicographic on code points
RECURSIVE StrLess(_, _)
StrLess(a, b) ==
    IF b = <<>> THEN FALSE
    ELSE IF a = <<>> THEN TRUE
    ELSE IF Ord(Head(a)) # Ord(Head(b)) THEN Ord(Head(a)) < Ord(Head(b))
    ELSE StrLess(Tail(a), Tail(b))

\* s.strip()
RECURSIVE LStrip(_)
LStrip(s) == IF s # <<>> /\ IsSpace(Head(s)) THEN LStrip(Tail(s)) ELSE s

RECURSIVE RStrip(_)
RStrip(s) ==
    IF s # <<>> /\ IsSpace(s[Len(s)]) THEN RStrip(SubSeq(s, 1, Len(s) - 1)) ELSE s

Strip(s) == RStrip(LStrip(s))

\* s.replace("_", " ")
ReplaceUnderscores(s) == [i \in 1..Len(s) |-> IF s[i] = "_" THEN " " ELSE s[i]]

\* s.title(): a cased character is upper-cased after an uncased one (or at the
\* start) and lower-cased after a cased one
RECURSIVE TitleFrom(_, _, _)
TitleFrom(s, i, prevCased) ==
    IF i > Len(s) THEN <<>>
    ELSE LET c == s[i]
             t == IF ~IsCased(c) THEN c
                  ELSE IF prevCased THEN ToLower(c) ELSE ToUpper(c)
         IN  <<t>> \o TitleFrom(s, i + 1, IsCased(c))

Title(s) == TitleFrom(s, 1, FALSE)

\* the value of a str of decimal digits
RECURSIVE DigitsValue(_)
DigitsValue(s) ==
    IF s = <<>> THEN 0
    ELSE 10 * DigitsValue(SubSeq(s, 1, Len(s) - 1)) + (IndexIn(DigitChars, s[Len(s)]) - 1)

LowerStr(s) == [i \in 1..Len(s) |-> ToLower(s[i])]

\* float(s), for the literals the model feeds it: surrounding whitespace is
\* ignored, then an optional sign, then decimal digits, "nan", "inf" or
\* "infinity" in any case.  Anything else is a ValueError.
ParseFloat(s) ==
    LET t    == Strip(s)
        neg  == t # <<>> /\ Head(t) = "-"
        body == IF t # <<>> /\ Head(t) \in {"-", "+"} THEN Tail(t) ELSE t
        low  == LowerStr(body)
    IN  IF body # <<>> /\ \A i \in 1..Len(body) : IsDigit(body[i])
        THEN [ok |-> TRUE, kind |-> "finite",
              val |-> IF neg THEN 0 - DigitsValue(body) ELSE DigitsValue(body)]
        ELSE IF low = <<"n", "a", "n">>
        THEN [ok |-> TRUE, kind |-> "nan", val |-> 0]
        ELSE IF low \in {<<"i", "n", "f">>, <<"i", "n", "f", "i", "n", "i", "t", "y">>}
        THEN [ok |-> TRUE, kind |-> IF neg THEN "-inf" ELSE "inf", val |-> 0]
        ELSE [ok |-> FALSE, kind |-> "ValueError", val |-> 0]

----------------------------------------------------------------------------
(* csv.reader and csv.DictReader over an io.StringIO of the fetched text *)

\* The fetched text is the sequence of the records csv.reader yields for it:
\* fields is the list of the record's fields ([] for a blank line), bad says
\* that csv.reader raises csv.Error when it reaches the record.
Line(fields) == [bad |-> FALSE, fields |-> fields]
BadLine == [bad |-> TRUE, fields |-> <<>>]

\* DictReader.fieldnames: the first record of the text; None (here <<>>, as
\* falsy as None) when the text is empty
Fieldnames(text) == IF text = <<>> THEN <<>> ELSE text[1].fields

\* reading DictReader.fieldnames raises csv.Error
FieldnamesRaise(text) == text # <<>> /\ text[1].bad

\* the dict DictReader builds of one record: dict(zip(fieldnames, row)), the
\* fieldnames the row is too short for set to restval = None (the extra
\* fields, stored under restkey = None, are never read)
RowDict(fieldnames, row) ==
    [k \in Range(fieldnames) |->
        LET idx == {i \in 1..Len(fieldnames) : fieldnames[i] = k}
        IN  IF \E i \in idx : i > Len(row) THEN None ELSE row[SetMax(idx)]]

\* row.get(key)
Get(d, key) == IF key \in DOMAIN d THEN d[key] ELSE None

\* the records after the header that DictReader.__next__ returns: the blank
\* ones are skipped
DataLines(text) ==
    SelectSeq(IF text = <<>> THEN <<>> ELSE Tail(text),
              LAMBDA l : l.bad \/ l.fields # <<>>)

\* iterating the reader raises csv.Error before the end of the text
IterRaises(text) == \E i \in 1..Len(DataLines(text)) : DataLines(text)[i].bad

\* the dicts the reader yields, in file order
DataRows(text) ==
    [i \in 1..Len(DataLines(text)) |-> RowDict(Fieldnames(text), DataLines(text)[i].fields)]

----------------------------------------------------------------------------
(* The responses of the widget endpoints *)

\* len(all_components) > SampleMax adds "..." to the message; the sample is
\* list(all_components)[:SampleMax]
SampleMax == 5

ExpectedHeaders == <<"filing_date", "count", "component">>

\* a header check that asks for the component column only, as the listers do
HeadersPresentComponentOnly(fieldnames) ==
    fieldnames # <<>> /\ "component" \in Range(fieldnames)

\* all(h in reader.fieldnames for h in expected_headers), with the
\* "not reader.fieldnames" test before it
HeadersPresent(fieldnames) ==
    /\ fieldnames # <<>>
    /\ \A i \in 1..Len(ExpectedHeaders) : ExpectedHeaders[i] \in Range(fieldnames)

\* What the body of a handler's second try block does: exc is the exception it
\* raises ("none" when it returns series), excStatus and cause the status and
\* the message of an HTTPException, sample and more the component values the
\* "not found" message lists and its "...", read the number of records the
\* filtering loop took from the reader.
TryResult(exc, excStatus, cause, series, sample, more, read) ==
    [exc |-> exc, excStatus |-> excStatus, cause |-> cause, series |-> series,
     sample |-> sample, more |-> more, read |-> read]

\* the response FastAPI sends: the returned list with status 200, or the
\* status and detail of the HTTPException that leaves the handler; the other
\* fields keep what the try block raised
Response(status, detail, try) ==
    [status |-> status, detail |-> detail, series |-> try.series,
     exc |-> try.exc, excStatus |-> try.excStatus, cause |-> try.cause,
     sample |-> try.sample, more |-> try.more, read |-> try.read]

NoTry == TryResult("none", 0, "none", <<>>, <<>>, FALSE, 0)

NoResponse == Response(0, "none", NoTry)

\* a fetch failure answered as an empty result
FetchFailedAsEmpty(detail) == Response(200, "", NoTry)

\* except requests.exceptions.RequestException: raise HTTPException(503, ...)
FetchFailed(detail) ==
    Response(503, detail, TryResult("RequestException", 0, "fetch", <<>>, <<>>, FALSE, 0))

\* a handler that answers a not-found with an empty list
CloseTryNotFoundAsEmpty(try, parseDetail, unexpectedDetail) ==
    IF try.exc = "none" \/ (try.exc = "HTTPException" /\ try.excStatus = 404)
    THEN Response(200, "", try)
    ELSE IF try.exc = "csv.Error" THEN Response(500, parseDetail, try)
    ELSE Response(500, unexpectedDetail, try)

\* the except clauses that close the second try block: csv.Error becomes a
\* 500 "Error parsing", and "except Exception" takes every other exception,
\* the HTTPException the block itself raised included, and raises a 500
\* "Unexpected error" in its place
CloseTry(try, parseDetail, unexpectedDetail) ==
    IF try.exc = "none" THEN Response(200, "", try)
    ELSE IF try.exc = "csv.Error" THEN Response(500, parseDetail, try)
    ELSE Response(500, unexpectedDetail, try)

\* an entry whose date is the stripped field
EntryStrippedDate(row) ==
    [filing_date |-> Strip(Get(row, "filing_date")),
     count |-> [kind |-> ParseFloat(Get(row, "count")).kind,
                val |-> ParseFloat(Get(row, "count")).val]]

\* {"filing_date": date_str, "count": float(count_str)}
Entry(row) ==
    [filing_date |-> Get(row, "filing_date"),
     count |-> [kind |-> ParseFloat(Get(row, "count")).kind,
                val |-> ParseFloat(Get(row, "count")).val]]

\* a message that lists every component
SampleAll(order) == order

\* list(all_components)[:5] for the iteration order the set happens to have
Sample(order) == SubSeq(order, 1, IF Len(order) < SampleMax THEN Len(order) ELSE SampleMax)

\* the second reader after csvfile.seek(0): reading its fieldnames takes the
\* header, so next(temp_reader) takes the first data record, and the loop
\* sees the records after it
\* (next raises StopIteration when there is none: the handlers test that case)
AfterNext(text) == IF DataRows(text) = <<>> THEN <<>> ELSE Tail(DataRows(text))

----------------------------------------------------------------------------
(* create_format1_indicator_endpoint_logic(csv_url).endpoint_logic *)

\* a loop body that does not test filing_date
endpoint_logic_keeps_any_date(row, component_type) ==
    /\ Get(row, "component") = component_type
    /\ Get(row, "count") # None
    /\ Strip(Get(row, "count")) # <<>>
    /\ ParseFloat(Get(row, "count")).ok

\* the body of the "for row in reader" loop: the row is appended when its
\* component is the discriminator, count and filing_date are not None and
\* not blank, and float(count_str) raises no ValueError
endpoint_logic_keeps(row, component_type) ==
    /\ Get(row, "component") = component_type
    /\ Get(row, "count") # None
    /\ Strip(Get(row, "count")) # <<>>
    /\ Get(row, "filing_date") # None
    /\ Strip(Get(row, "filing_date")) # <<>>
    /\ ParseFloat(Get(row, "count")).ok

\* a loop that gives up every row of the discriminator when one of them
\* cannot be used
endpoint_logic_processed_all_or_nothing(text, component_type) ==
    LET mine == SelectSeq(DataRows(text), LAMBDA row : Get(row, "component") = component_type)
    IN  IF \A i \in 1..Len(mine) : endpoint_logic_keeps(mine[i], component_type)
        THEN [i \in 1..Len(mine) |-> Entry(mine[i])]
        ELSE <<>>

\* processed_data when the loop ends
endpoint_logic_processed(text, component_type) ==
    LET kept == SelectSeq(DataRows(text), LAMBDA row : endpoint_logic_keeps(row, component_type))
    IN  [i \in 1..Len(kept) |-> Entry(kept[i])]

\* all_components of the second pass
endpoint_logic_components(text) ==
    IF Fieldnames(text) # <<>> /\ "component" \in Range(Fieldnames(text))
    THEN {Get(AfterNext(text)[i], "component") : i \in 1..Len(AfterNext(text))} \ {None}
    ELSE {}

endpoint_logic_try(text, component_type, order) ==
    IF FieldnamesRaise(text)
    THEN TryResult("csv.Error", 0, "parse", <<>>, <<>>, FALSE, 0)
    ELSE IF ~HeadersPresent(Fieldnames(text))
    THEN TryResult("HTTPException", 500, "schema", <<>>, <<>>, FALSE, 0)
    ELSE IF IterRaises(text)
    THEN TryResult("csv.Error", 0, "parse", <<>>, <<>>, FALSE,
                   CHOOSE i \in 1..Len(DataLines(text)) :
                       /\ DataLines(text)[i].bad
                       /\ \A j \in 1..(i - 1) : ~DataLines(text)[j].bad)
    ELSE IF endpoint_logic_processed(text, component_type) # <<>>
    THEN TryResult("none", 0, "none", endpoint_logic_processed(text, component_type),
                   <<>>, FALSE, Len(DataLines(text)))
    ELSE IF "component" \in Range(Fieldnames(text)) /\ DataLines(text) = <<>>
    THEN \* next(temp_reader) on a reader with no data record
         TryResult("StopIteration", 0, "none", <<>>, <<>>, FALSE, 0)
    ELSE IF /\ component_type \notin endpoint_logic_components(text)
            /\ "component" \in Range(Fieldnames(text))
    THEN TryResult("HTTPException", 404, "unknown", <<>>, Sample(order),
                   Cardinality(endpoint_logic_components(text)) > SampleMax,
                   Len(DataLines(text)))
    ELSE TryResult("HTTPException", 404, "nodata", <<>>, <<>>, FALSE, Len(DataLines(text)))

\* a handler whose second pass stops at the first member of all_components
endpoint_logic_first_component_only(outcome, component_type, order) ==
    IF ~outcome.ok
    THEN FetchFailed("Could not fetch CSV data")
    ELSE LET try == endpoint_logic_try(outcome.text, component_type, order)
         IN  IF try.cause = "nodata" /\ order # <<>> /\ Head(order) # component_type
             THEN CloseTry([try EXCEPT !.cause = "unknown"],
                           "Error parsing CSV", "Unexpected error")
             ELSE CloseTry(try, "Error parsing CSV", "Unexpected error")

\* the handler from the point where requests.get returns or raises; order is
\* the iteration order of the set all_components
endpoint_logic(outcome, component_type, order) ==
    IF ~outcome.ok
    THEN FetchFailed("Could not fetch CSV data")
    ELSE CloseTry(endpoint_logic_try(outcome.text, component_type, order),
                  "Error parsing CSV", "Unexpected error")

----------------------------------------------------------------------------
(* ipo_index_widget *)

\* a loop body that compares the label of the row's component
\* (component.replace("_", " ").title()) with the discriminator
ipo_index_widget_keeps_by_label(row, ipo_type) ==
    /\ Get(row, "component") # None
    /\ Title(ReplaceUnderscores(Get(row, "component"))) = ipo_type
    /\ ~(\/ Get(row, "count") = None
         \/ Strip(Get(row, "count")) = <<>>
         \/ Get(row, "filing_date") = None
         \/ Strip(Get(row, "filing_date")) = <<>>)
    /\ ParseFloat(Get(row, "count")).ok

\* the loop body: "continue" when count or filing_date is None or blank, or
\* when float(count_str) raises ValueError
ipo_index_widget_keeps(row, ipo_type) ==
    /\ Get(row, "component") = ipo_type
    /\ ~(\/ Get(row, "count") = None
         \/ Strip(Get(row, "count")) = <<>>
         \/ Get(row, "filing_date") = None
         \/ Strip(Get(row, "filing_date")) = <<>>)
    /\ ParseFloat(Get(row, "count")).ok

ipo_index_widget_processed(text, ipo_type) ==
    LET kept == SelectSeq(DataRows(text), LAMBDA row : ipo_index_widget_keeps(row, ipo_type))
    IN  [i \in 1..Len(kept) |-> Entry(kept[i])]

\* a second pass that reads every data row
ipo_index_widget_components_all_rows(text) ==
    {Get(DataRows(text)[i], "component") : i \in 1..Len(DataRows(text))} \ {None}

\* all_components: next(temp_reader) is not guarded here
ipo_index_widget_components(text) ==
    {Get(AfterNext(text)[i], "component") : i \in 1..Len(AfterNext(text))} \ {None}

ipo_index_widget_try(text, ipo_type, order) ==
    IF FieldnamesRaise(text)
    THEN TryResult("csv.Error", 0, "parse", <<>>, <<>>, FALSE, 0)
    ELSE IF ~HeadersPresent(Fieldnames(text))
    THEN TryResult("HTTPException", 500, "schema", <<>>, <<>>, FALSE, 0)
    ELSE IF IterRaises(text)
    THEN TryResult("csv.Error", 0, "parse", <<>>, <<>>, FALSE,
                   CHOOSE i \in 1..Len(DataLines(text)) :
                       /\ DataLines(text)[i].bad
                       /\ \A j \in 1..(i - 1) : ~DataLines(text)[j].bad)
    ELSE IF ipo_index_widget_processed(text, ipo_type) # <<>>
    THEN TryResult("none", 0, "none", ipo_index_widget_processed(text, ipo_type),
                   <<>>, FALSE, Len(DataLines(text)))
    ELSE IF DataLines(text) = <<>>
    THEN TryResult("StopIteration", 0, "none", <<>>, <<>>, FALSE, 0)
    ELSE IF ipo_type \notin ipo_index_widget_components(text)
    THEN TryResult("HTTPException", 404, "unknown", <<>>, Sample(order),
                   Cardinality(ipo_index_widget_components(text)) > SampleMax,
                   Len(DataLines(text)))
    ELSE TryResult("HTTPException", 404, "nodata", <<>>, <<>>, FALSE, Len(DataLines(text)))

ipo_index_widget(outcome, ipo_type, order) ==
    IF ~outcome.ok
    THEN FetchFailed("Could not fetch IPO data CSV")
    ELSE CloseTry(ipo_index_widget_try(outcome.text, ipo_type, order),
                  "Error parsing CSV data", "Unexpected error processing IPO data")

----------------------------------------------------------------------------
(* consumer_confidence_widget *)

consumer_confidence_widget_keeps(row, confidence_type) ==
    /\ Get(row, "component") = confidence_type
    /\ ~(\/ Get(row, "count") = None
         \/ Strip(Get(row, "count")) = <<>>
         \/ Get(row, "filing_date") = None
         \/ Strip(Get(row, "filing_date")) = <<>>)
    /\ ParseFloat(Get(row, "count")).ok

consumer_confidence_widget_processed(text, confidence_type) ==
    LET kept == SelectSeq(DataRows(text),
                          LAMBDA row : consumer_confidence_widget_keeps(row, confidence_type))
    IN  [i \in 1..Len(kept) |-> Entry(kept[i])]

consumer_confidence_widget_components(text) ==
    IF Fieldnames(text) # <<>> /\ "component" \in Range(Fieldnames(text))
    THEN {Get(AfterNext(text)[i], "component") : i \in 1..Len(AfterNext(text))} \ {None}
    ELSE {}

\* a try body that looks at the header only after the rows were filtered and
\* the empty result was classified
consumer_confidence_widget_try_header_last(text, confidence_type, order) ==
    IF FieldnamesRaise(text)
    THEN TryResult("csv.Error", 0, "parse", <<>>, <<>>, FALSE, 0)
    ELSE IF IterRaises(text)
    THEN TryResult("csv.Error", 0, "parse", <<>>, <<>>, FALSE, 0)
    ELSE IF consumer_confidence_widget_processed(text, confidence_type) # <<>>
    THEN TryResult("none", 0, "none",
                   consumer_confidence_widget_processed(text, confidence_type),
                   <<>>, FALSE, Len(DataLines(text)))
    ELSE IF "component" \in Range(Fieldnames(text)) /\ DataLines(text) = <<>>
    THEN TryResult("StopIteration", 0, "none", <<>>, <<>>, FALSE, 0)
    ELSE IF /\ confidence_type \notin consumer_confidence_widget_components(text)
            /\ "component" \in Range(Fieldnames(text))
    THEN TryResult("HTTPException", 404, "unknown", <<>>, Sample(order),
                   Cardinality(consumer_confidence_widget_components(text)) > SampleMax,
                   Len(DataLines(text)))
    ELSE IF ~HeadersPresent(Fieldnames(text))
    THEN TryResult("HTTPException", 500, "schema", <<>>, <<>>, FALSE, Len(DataLines(text)))
    ELSE TryResult("HTTPException", 404, "nodata", <<>>, <<>>, FALSE, Len(DataLines(text)))

\* the body of the second try block, from csv_content = response.text to the
\* return or the raise that leaves it

consumer_confidence_widget_try(text, confidence_type, order) ==
    IF FieldnamesRaise(text)
    THEN TryResult("csv.Error", 0, "parse", <<>>, <<>>, FALSE, 0)
    ELSE IF ~HeadersPresent(Fieldnames(text))
    THEN TryResult("HTTPException", 500, "schema", <<>>, <<>>, FALSE, 0)
    ELSE IF IterRaises(text)
    THEN TryResult("csv.Error", 0, "parse", <<>>, <<>>, FALSE,
                   CHOOSE i \in 1..Len(DataLines(text)) :
                       /\ DataLines(text)[i].bad
                       /\ \A j \in 1..(i - 1) : ~DataLines(text)[j].bad)
    ELSE IF consumer_confidence_widget_processed(text, confidence_type) # <<>>
    THEN TryResult("none", 0, "none",
                   consumer_confidence_widget_processed(text, confidence_type),
                   <<>>, FALSE, Len(DataLines(text)))
    ELSE IF "component" \in Range(Fieldnames(text)) /\ DataLines(text) = <<>>
    THEN TryResult("StopIteration", 0, "none", <<>>, <<>>, FALSE, 0)
    ELSE IF /\ confidence_type \notin consumer_confidence_widget_components(text)
            /\ "component" \in Range(Fieldnames(text))
    THEN TryResult("HTTPException", 404, "unknown", <<>>, Sample(order),
                   Cardinality(consumer_confidence_widget_components(text)) > SampleMax,
                   Len(DataLines(text)))
    ELSE TryResult("HTTPException", 404, "nodata", <<>>, <<>>, FALSE, Len(DataLines(text)))

consumer_confidence_widget(outcome, confidence_type, order) ==
    IF ~outcome.ok
    THEN FetchFailed("Could not fetch Consumer Confidence CSV")
    ELSE CloseTry(consumer_confidence_widget_try(outcome.text, confidence_type, order),
                  "Error parsing Consumer Confidence CSV",
                  "Unexpected error processing Consumer Confidence data")

----------------------------------------------------------------------------
(* The option lister *)

\* {"value": c, "label": c.replace("_", " ").title()}
Option(c) == [value |-> c, label |-> Title(ReplaceUnderscores(c))]

\* sorted(..., key=lambda x: x["label"]): a stable sort, here by insertion
InsertByLabel(sorted, x) ==
    LET k == Cardinality({i \in 1..Len(sorted) : ~StrLess(x.label, sorted[i].label)})
    IN  SubSeq(sorted, 1, k) \o <<x>> \o SubSeq(sorted, k + 1, Len(sorted))

\* a lister that forgets to sort
Unsorted(seq) == seq

RECURSIVE SortedByLabel(_)
SortedByLabel(seq) ==
    IF seq = <<>> THEN <<>>
    ELSE InsertByLabel(SortedByLabel(SubSeq(seq, 1, Len(seq) - 1)), seq[Len(seq)])

\* the set "components" of the listers: the truthy component values ("if comp")
ListedComponents(text) ==
    {Get(DataRows(text)[i], "component") : i \in 1..Len(DataRows(text))} \ {None, <<>>}

\* what a call of a lister ends with: exc is the exception that leaves it
ListerResult(exc, value) == [exc |-> exc, value |-> value]

\* the try body of both listers from the point where requests.get returns;
\* order is the iteration order of the set components
ListerBody(outcome, order) ==
    IF ~outcome.ok THEN ListerResult("RequestException", <<>>)
    ELSE IF FieldnamesRaise(outcome.text) THEN ListerResult("csv.Error", <<>>)
    ELSE IF \/ Fieldnames(outcome.text) = <<>>
            \/ "component" \notin Range(Fieldnames(outcome.text))
    THEN ListerResult("none", <<>>)
    ELSE IF IterRaises(outcome.text) THEN ListerResult("csv.Error", <<>>)
    ELSE ListerResult("none", SortedByLabel([i \in 1..Len(order) |-> Option(order[i])]))

\* a lister without the except clause: the exception leaves it
fetch_options_sync_reraise(body) == body

\* fetch_options_sync: "except: return []"
fetch_options_sync_except(body) ==
    IF body.exc = "none" THEN body ELSE ListerResult("none", <<>>)

fetch_options_sync(outcome, order) == fetch_options_sync_except(ListerBody(outcome, order))

\* get_unique_components_from_csv: "except requests.exceptions.RequestException"
\* around the fetch, "except csv.Error" and "except Exception" around the rest
get_unique_components_except(body) ==
    IF body.exc = "none" THEN body
    ELSE IF body.exc = "RequestException" THEN ListerResult("none", <<>>)
    ELSE IF body.exc = "csv.Error" THEN ListerResult("none", <<>>)
    ELSE ListerResult("none", <<>>)

get_unique_components_from_csv(outcome, order) ==
    get_unique_components_except(ListerBody(outcome, order))

\* the iteration orders a set can have
SeqPerms(S) == {s \in [1..Cardinality(S) -> S] : Range(s) = S}

----------------------------------------------------------------------------
(* The upstream: what requests.get followed by raise_for_status yields *)

Fetched(text) == [ok |-> TRUE, err |-> "none", text |-> text]
FetchError(err) == [ok |-> FALSE, err |-> err, text |-> <<>>]
NoOutcome == FetchError("none")

\* the RequestExceptions of a fetch: no connection, no answer within the
\* timeout, a status raise_for_status rejects
FetchErrors == {FetchError("ConnectionError"), FetchError("Timeout"), FetchError("HTTPError")}

\* the timeout=10 of the handlers' requests.get; the get of
\* table_widget_from_api_endpoint has no timeout argument
HasTimeout(w) == w # "table_widget_from_api_endpoint"

\* a start-up fetch without the timeout argument
fetch_options_sync_no_timeout == FALSE

\* requests.get(url, timeout=10) in fetch_options_sync
fetch_options_sync_timeout == TRUE

\* a get returns or raises: a host that does not answer (the outcome
\* "Timeout") ends a get only when the get has a timeout
Completes(outcome, hasTimeout) == outcome.err # "Timeout" \/ hasTimeout

\* what the chains API does with a GET: answers 200 with JSON, answers
\* another status, refuses the connection, or does not answer
ApiStates == {"json", "status503", "ConnectionError", "silent"}

Str_a == <<"a">>
Str_A == <<"A">>
Str_b == <<"b">>
Str_b_a == <<"b", "_", "a">>
Str_d1 == <<"d", "1">>
Str_d2 == <<"d", "2">>
Str_5 == <<"5">>
Str_7 == <<"7">>

\* a data record of the upstream file: its three values and how many of the
\* record's fields the line really has (0: a blank line)
Rec(date, count, comp, keep) ==
    [bad |-> FALSE, filing_date |-> date, count |-> count, component |-> comp, keep |-> keep]

BadRec == [bad |-> TRUE, filing_date |-> <<>>, count |-> <<>>, component |-> <<>>, keep |-> 0]

\* the line of a record under a header
LayOut(header, rec) ==
    IF rec.bad THEN BadLine
    ELSE Line([i \in 1..(IF rec.keep < Len(header) THEN rec.keep ELSE Len(header)) |->
                  rec[header[i]]])

CsvText(header, recs) ==
    <<Line(header)>> \o [i \in 1..Len(recs) |-> LayOut(header, recs[i])]

SeqsUpTo(S, n) == UNION {[1..k -> S] : k \in 0..n}

GoodHeaders ==
    {<<"filing_date", "count", "component">>, <<"component", "filing_date", "count">>}

\* headers that lack count, filing_date, component
BadHeaders ==
    {<<"filing_date", "component">>, <<"count", "component">>, <<"filing_date", "count">>}

\* texts with no usable header at all: the empty text, a blank first line, a
\* first line csv.reader rejects
NoHeaderTexts == {<<>>, <<Line(<<>>)>>, <<BadLine>>}

\* the records of the extraction inputs
ExtractRecs ==
    { Rec(Str_d1, Str_5, Str_a, 3),
      Rec(Str_d2, Str_7, Str_a, 3),
      Rec(<<" ", "d", "1", " ">>, <<" ", "1", "2", " ">>, Str_a, 3),
      Rec(<<>>, Str_7, Str_a, 3),
      Rec(<<" ">>, Str_5, Str_a, 3),
      Rec(Str_d1, <<>>, Str_a, 3),
      Rec(Str_d1, <<"x">>, Str_a, 3),
      Rec(Str_d1, <<"n", "a", "n">>, Str_a, 3),
      Rec(Str_d2, <<"i", "n", "f">>, Str_a, 3),
      Rec(Str_d1, Str_5, Str_b, 3),
      Rec(Str_d1, Str_5, <<>>, 3),
      Rec(Str_a, Str_5, Str_a, 1),
      Rec(Str_d1, Str_5, Str_a, 0),
      BadRec }

ExtractPool ==
    {Fetched(CsvText(h, recs)) : h \in GoodHeaders, recs \in SeqsUpTo(ExtractRecs, MaxRows)}
    \cup {Fetched(CsvText(h, recs)) : h \in BadHeaders,
                                     recs \in SeqsUpTo({Rec(Str_d1, Str_5, Str_a, 3)}, 1)}
    \cup {Fetched(t) : t \in NoHeaderTexts}
    \cup FetchErrors

Discriminators == {Str_a, Str_b, Str_A, <<>>}

\* the records of the option-lister inputs
OptionRecs ==
    { Rec(Str_d1, Str_5, Str_a, 3),
      Rec(Str_d1, Str_5, Str_A, 3),
      Rec(Str_d1, Str_5, Str_b_a, 3),
      Rec(Str_d1, Str_5, <<>>, 3),
      Rec(Str_d1, Str_5, Str_a, 1),
      BadRec }

OptionPool ==
    {Fetched(CsvText(<<"filing_date", "count", "component">>, recs)) :
        recs \in SeqsUpTo(OptionRecs, MaxOptRows)}
    \cup {Fetched(CsvText(<<"filing_date", "count">>, recs)) :
             recs \in SeqsUpTo({Rec(Str_d1, Str_5, Str_a, 3)}, 1)}
    \cup {Fetched(t) : t \in NoHeaderTexts}
    \cup FetchErrors

----------------------------------------------------------------------------
(* The registry and the import of main.py *)

\* the module-level blocks that register a widget, in file order; of the
\* format1 blocks (chemicals_widget ... war_widget, all of one shape) the
\* first and the last
ImportOrder ==
    <<"table_to_chart_widget", "table_to_time_series_widget", "ipo_index_widget",
      "consumer_confidence_widget", "table_widget_from_api_endpoint",
      "chemicals_widget", "war_widget">>

\* the widgets whose options come from fetch_options_sync
GenericWidgets == {"chemicals_widget", "war_widget"}

\* the widgets that take the "type" discriminator
ParamWidgets == {"ipo_index_widget", "consumer_confidence_widget"} \cup GenericWidgets

\* the chemicals block fetching the URL of the war block
UrlCopied(w) ==
    CASE w = "ipo_index_widget" -> "Corporate%20Finance/ipo/overview.csv"
      [] w = "consumer_confidence_widget" -> "Consumer%20Sentiment/consumer-confidence/overview.csv"
      [] w = "chemicals_widget" -> "War/war/overview.csv"
      [] w = "war_widget" -> "War/war/overview.csv"

\* csv_url / CHEMICALS_CSV_URL / WAR_CSV_URL
Url(w) ==
    CASE w = "ipo_index_widget" -> "Corporate%20Finance/ipo/overview.csv"
      [] w = "consumer_confidence_widget" -> "Consumer%20Sentiment/consumer-confidence/overview.csv"
      [] w = "chemicals_widget" -> "Resources/chemicals/overview.csv"
      [] w = "war_widget" -> "War/war/overview.csv"

Urls ==
    {"Corporate%20Finance/ipo/overview.csv",
     "Consumer%20Sentiment/consumer-confidence/overview.csv",
     "Resources/chemicals/overview.csv", "War/war/overview.csv"}

IpoOptions ==
    <<[value |-> <<"d", "o", "m", "e", "s", "t", "i", "c", "_", "u", "s">>,
      label |-> <<"D", "o", "m", "e", "s", "t", "i", "c", " ", "U", "S">>],
     [value |-> <<"i", "n", "t", "e", "r", "n", "a", "t", "i", "o", "n", "a", "l", "_", "u", "s">>,
      label |-> <<"I", "n", "t", "e", "r", "n", "a", "t", "i", "o", "n", "a", "l", " ", "U", "S">>],
     [value |-> <<"d", "o", "m", "e", "s", "t", "i", "c", "_", "c", "n">>,
      label |-> <<"D", "o", "m", "e", "s", "t", "i", "c", " ", "C", "N">>],
     [value |-> <<"i", "n", "t", "e", "r", "n", "a", "t", "i", "o", "n", "a", "l", "_", "c", "n">>,
      label |-> <<"I", "n", "t", "e", "r", "n", "a", "t", "i", "o", "n", "a", "l", " ", "C", "N">>],
     [value |-> <<"d", "o", "m", "e", "s", "t", "i", "c", "_", "e", "u">>,
      label |-> <<"D", "o", "m", "e", "s", "t", "i", "c", " ", "E", "U">>],
     [value |-> <<"i", "n", "t", "e", "r", "n", "a", "t", "i", "o", "n", "a", "l", "_", "e", "u">>,
      label |-> <<"I", "n", "t", "e", "r", "n", "a", "t", "i", "o", "n", "a", "l", " ", "E", "U">>]>>

ConsumerConfidenceOptions ==
    <<[value |-> <<"d", "o", "m", "e", "s", "t", "i", "c">>,
      label |-> <<"D", "o", "m", "e", "s", "t", "i", "c">>],
     [value |-> <<"i", "n", "t", "e", "r", "n", "a", "t", "i", "o", "n", "a", "l">>,
      label |-> <<"I", "n", "t", "e", "r", "n", "a", "t", "i", "o", "n", "a", "l">>]>>

\* one "type" parameter of a widget_config
TypeParam(value, opts) == [paramName |-> "type", value |-> value, options |-> opts]

\* a format1 block whose default is the value of its last option
WidgetConfigLastDefault(w, opts) ==
    IF w \in {"ipo_index_widget", "consumer_confidence_widget"}
    THEN [endpoint |-> w, params |-> <<TypeParam(<<>>, <<>>)>>]
    ELSE IF w \in GenericWidgets
    THEN [endpoint |-> w,
          params |-> <<TypeParam(IF opts # <<>> THEN opts[Len(opts)].value ELSE <<>>, opts)>>]
    ELSE [endpoint |-> w]

\* the dict passed to register_widget by the block of widget w (the keys the
\* model reads: endpoint, params); opts is chemicals_options / war_options
WidgetConfig(w, opts) ==
    CASE w = "ipo_index_widget" ->
            [endpoint |-> w, params |-> <<TypeParam(IpoOptions[1].value, IpoOptions)>>]
      [] w = "consumer_confidence_widget" ->
            [endpoint |-> w,
             params |-> <<TypeParam(ConsumerConfidenceOptions[1].value, ConsumerConfidenceOptions)>>]
      [] w \in GenericWidgets ->
            [endpoint |-> w,
             params |-> <<TypeParam(IF opts # <<>> THEN opts[1].value ELSE <<>>, opts)>>]
      [] OTHER -> [endpoint |-> w]

\* a decorator that leaves an endpoint that is registered already as it is
register_widget_keeps_first(W, widget_config) ==
    IF /\ "endpoint" \in DOMAIN widget_config
       /\ widget_config["endpoint"] # ""
       /\ widget_config["endpoint"] \notin DOMAIN W
    THEN LET endpoint == widget_config["endpoint"]
             config == IF "id" \in DOMAIN widget_config THEN widget_config
                       ELSE ("id" :> endpoint) @@ widget_config
         IN  [e \in (DOMAIN W) \cup {endpoint} |-> IF e = endpoint THEN config ELSE W[e]]
    ELSE W

\* register_widget(widget_config)(func): the registry after the decorator
\* ran. Nothing changes when widget_config has no (or an empty) "endpoint";
\* else widget_config, with "id" set to the endpoint when it has none, is
\* stored under the endpoint
register_widget(W, widget_config) ==
    IF "endpoint" \in DOMAIN widget_config /\ widget_config["endpoint"] # ""
    THEN LET endpoint == widget_config["endpoint"]
             config == IF "id" \in DOMAIN widget_config THEN widget_config
                       ELSE ("id" :> endpoint) @@ widget_config
         IN  [e \in (DOMAIN W) \cup {endpoint} |-> IF e = endpoint THEN config ELSE W[e]]
    ELSE W

Importing == pc <= Len(ImportOrder) /\ importExc = "none"

\* a server that takes requests while the blocks of main.py still run
ServingDuringImport == importExc = "none"

\* the server takes requests once main.py is imported
Serving == pc > Len(ImportOrder) /\ importExc = "none"

\* a block with a literal widget_config: @register_widget({...})
ImportStatic ==
    /\ Importing
    /\ ImportOrder[pc] \notin GenericWidgets
    /\ WIDGETS' = register_widget(WIDGETS, WidgetConfig(ImportOrder[pc], <<>>))
    /\ pc' = pc + 1
    /\ UNCHANGED <<importExc, options, optFetched, lister, reqs, upstream, api, published, registration>>

\* a format1 block: x_options = fetch_options_sync(X_CSV_URL), then
\* @register_widget({... "options": x_options ...}); an exception leaving
\* fetch_options_sync would abort the import
ImportGeneric ==
    /\ Importing
    /\ ImportOrder[pc] \in GenericWidgets
    /\ Completes(upstream[Url(ImportOrder[pc])], fetch_options_sync_timeout)
    /\ LET w == ImportOrder[pc]
           outcome == upstream[Url(w)]
       IN  \E order \in SeqPerms(ListedComponents(outcome.text)) :
               LET r == fetch_options_sync(outcome, order)
               IN  /\ optFetched' = [optFetched EXCEPT ![w] = outcome]
                   /\ IF r.exc = "none"
                      THEN /\ options' = [options EXCEPT ![w] = r.value]
                           /\ WIDGETS' = register_widget(WIDGETS, WidgetConfig(w, r.value))
                           /\ pc' = pc + 1
                           /\ UNCHANGED importExc
                      ELSE /\ importExc' = r.exc
                           /\ UNCHANGED <<options, WIDGETS, pc>>
    /\ UNCHANGED <<lister, reqs, upstream, api, published, registration>>

\* a call of get_unique_components_from_csv (nothing in main.py calls it)
CallLister ==
    /\ \E u \in Urls :
         \E order \in SeqPerms(ListedComponents(upstream[u].text)) :
            lister' = [called |-> TRUE, outcome |-> upstream[u],
                       result |-> get_unique_components_from_csv(upstream[u], order)]
    /\ UNCHANGED <<pc, importExc, WIDGETS, options, optFetched, reqs, upstream, api, published, registration>>

----------------------------------------------------------------------------
(* Requests to the widget endpoints *)

ReqIds == 1..MaxReqs

IdleReq ==
    [st |-> "idle", widget |-> "", disc |-> <<>>, fetches |-> 0,
     outcome |-> NoOutcome, resp |-> NoResponse]

\* handlers that parse a module-level text which the last handler to fetch
\* has set (here: the text request 1 holds)
HandlerSharedText(w, outcome, disc, order) ==
    LET shared == IF reqs[1].st = "done" /\ reqs[1].widget \in ParamWidgets
                  THEN reqs[1].outcome ELSE outcome
    IN  CASE w = "ipo_index_widget" -> ipo_index_widget(shared, disc, order)
          [] w = "consumer_confidence_widget" -> consumer_confidence_widget(shared, disc, order)
          [] OTHER -> endpoint_logic(shared, disc, order)

\* the handler of GET /<w>?type=<disc>, from the return of requests.get on;
\* chemicals_widget_endpoint and war_widget_endpoint await the endpoint_logic
\* made for their URL
Handler(w, outcome, disc, order) ==
    CASE w = "ipo_index_widget" -> ipo_index_widget(outcome, disc, order)
      [] w = "consumer_confidence_widget" -> consumer_confidence_widget(outcome, disc, order)
      [] OTHER -> endpoint_logic(outcome, disc, order)

\* the set all_components of the handler of w
AllComponents(w, text) ==
    CASE w = "ipo_index_widget" -> ipo_index_widget_components(text)
      [] w = "consumer_confidence_widget" -> consumer_confidence_widget_components(text)
      [] OTHER -> endpoint_logic_components(text)

\* the handlers declared "async def": the format1 endpoints
IsCoroutine(w) == w \in GenericWidgets

\* a coroutine that calls requests.get itself
UsesToThreadNever(w) == FALSE

\* await asyncio.to_thread(requests.get, csv_url, timeout=10)
UsesToThread(w) == w \in GenericWidgets

\* the blocking requests.get of the handler of w runs on the thread of the
\* event loop: a coroutine that calls it without to_thread (FastAPI runs a
\* "def" handler in a worker thread)
FetchOnEventLoop(w) == IsCoroutine(w) /\ ~UsesToThread(w)

\* no other request holds the event loop while request r takes a step
\* (r = 0: a step of no request in reqs)
LoopFree(r) ==
    \A q \in ReqIds \ {r} : ~(reqs[q].st = "fetching" /\ FetchOnEventLoop(reqs[q].widget))

\* FastAPI calls the handler, which calls requests.get(csv_url, timeout=10)
\* (the route holds the function @app.get was given, not the wrapper
\* register_widget returns)
Receive(r, w, disc) ==
    /\ Serving
    /\ LoopFree(r)
    /\ reqs[r].st = "idle"
    /\ reqs' = [reqs EXCEPT ![r] = [st |-> "fetching", widget |-> w, disc |-> disc,
                                    fetches |-> 1, outcome |-> NoOutcome,
                                    resp |-> NoResponse]]
    /\ UNCHANGED <<pc, importExc, WIDGETS, options, optFetched, lister, upstream, api, published, registration>>

\* a handler that calls requests.get again after a RequestException
FetchRaisesThenRetries(r) ==
    /\ reqs[r].widget \in ParamWidgets
    /\ reqs[r].st = "fetching"
    /\ ~upstream[Url(reqs[r].widget)].ok
    /\ reqs[r].fetches < 2
    /\ reqs' = [reqs EXCEPT ![r].fetches = reqs[r].fetches + 1]
    /\ UNCHANGED <<pc, importExc, WIDGETS, options, optFetched, lister, upstream, api, published, registration>>

\* requests.get or raise_for_status raises a RequestException: the handler
\* raises the 503
FetchRaises(r) ==
    /\ reqs[r].widget \in ParamWidgets
    /\ reqs[r].st = "fetching"
    /\ LoopFree(r)
    /\ ~upstream[Url(reqs[r].widget)].ok
    /\ Completes(upstream[Url(reqs[r].widget)], HasTimeout(reqs[r].widget))
    /\ reqs' = [reqs EXCEPT ![r].st = "done",
                            ![r].outcome = upstream[Url(reqs[r].widget)],
                            ![r].resp = Handler(reqs[r].widget, upstream[Url(reqs[r].widget)],
                                                reqs[r].disc, <<>>)]
    /\ UNCHANGED <<pc, importExc, WIDGETS, options, optFetched, lister, upstream, api, published, registration>>

\* the get of request r can return: the host answers with a text and the
\* event loop is free to resume the handler
MayReturn(r) ==
    /\ reqs[r].widget \in ParamWidgets
    /\ reqs[r].st = "fetching"
    /\ LoopFree(r)
    /\ upstream[Url(reqs[r].widget)].ok

\* requests.get returns the text: the handler runs to its return or raise
FetchReturns(r) ==
    /\ MayReturn(r)
    /\ LET outcome == upstream[Url(reqs[r].widget)]
       IN  \E order \in SeqPerms(AllComponents(reqs[r].widget, outcome.text)) :
               reqs' = [reqs EXCEPT ![r].st = "done",
                                    ![r].outcome = outcome,
                                    ![r].resp = Handler(reqs[r].widget, outcome,
                                                        reqs[r].disc, order)]
    /\ UNCHANGED <<pc, importExc, WIDGETS, options, optFetched, lister, upstream, api, published, registration>>

\* the response is sent and the handler's frame is gone
Deliver(r) ==
    /\ reqs[r].st = "done"
    /\ LoopFree(r)
    /\ reqs' = [reqs EXCEPT ![r] = IdleReq]
    /\ UNCHANGED <<pc, importExc, WIDGETS, options, optFetched, lister, upstream, api, published, registration>>

\* the remote file changes, or the remote host starts or stops answering
UpstreamChanges(u, outcome) ==
    /\ upstream[u] # outcome
    /\ upstream' = [upstream EXCEPT ![u] = outcome]
    /\ UNCHANGED <<pc, importExc, WIDGETS, options, optFetched, lister, reqs, api, published, registration>>

\* table_widget_from_api_endpoint from the point where requests.get returns
\* or raises: response.json() on status 200, an HTTPException with the
\* status of the API otherwise; an exception of requests.get is not caught
\* and FastAPI answers 500
table_widget_from_api_endpoint(a) ==
    CASE a = "json" -> Response(200, "", NoTry)
      [] a = "status503" ->
            Response(503, "response.text",
                     TryResult("HTTPException", 503, "api", <<>>, <<>>, FALSE, 0))
      [] OTHER ->
            Response(500, "Internal Server Error",
                     TryResult(a, 0, "api", <<>>, <<>>, FALSE, 0))

\* FastAPI calls table_widget_from_api_endpoint, which calls
\* requests.get("https://api.llama.fi/v2/chains")
ReceiveApi(r) ==
    /\ Serving
    /\ LoopFree(r)
    /\ reqs[r].st = "idle"
    /\ reqs' = [reqs EXCEPT ![r] = [st |-> "fetching",
                                    widget |-> "table_widget_from_api_endpoint",
                                    disc |-> <<>>, fetches |-> 1, outcome |-> NoOutcome,
                                    resp |-> NoResponse]]
    /\ UNCHANGED <<pc, importExc, WIDGETS, options, optFetched, lister, upstream, api, published, registration>>

\* the get of table_widget_from_api_endpoint returns or raises
ApiAnswers(r) ==
    /\ reqs[r].widget = "table_widget_from_api_endpoint"
    /\ reqs[r].st = "fetching"
    /\ LoopFree(r)
    /\ api # "silent" \/ HasTimeout(reqs[r].widget)
    /\ reqs' = [reqs EXCEPT ![r].st = "done",
                            ![r].resp = table_widget_from_api_endpoint(api)]
    /\ UNCHANGED <<pc, importExc, WIDGETS, options, optFetched, lister, upstream, api, published, registration>>

\* the chains API starts or stops answering
ApiChanges(a) ==
    /\ api # a
    /\ api' = a
    /\ UNCHANGED <<pc, importExc, WIDGETS, options, optFetched, lister, reqs, upstream, published, registration>>

NoPublished == [endpoint |-> "", body |-> <<>>]

\* GET /: return {"Info": "Hello World"}
read_root ==
    /\ Serving
    /\ LoopFree(0)
    /\ published' = [endpoint |-> "/", body |-> [Info |-> "Hello World"]]
    /\ UNCHANGED <<pc, importExc, WIDGETS, options, optFetched, lister, reqs, upstream, api, registration>>

\* a get_widgets that answers with the registry and then empties the option
\* lists of the descriptors it holds
get_widgets_clearing_options ==
    /\ Serving
    /\ LoopFree(0)
    /\ published' = [endpoint |-> "/widgets.json", body |-> WIDGETS]
    /\ WIDGETS' = [e \in DOMAIN WIDGETS |->
                      IF e \in GenericWidgets
                      THEN [WIDGETS[e] EXCEPT !.params = <<TypeParam(<<>>, <<>>)>>]
                      ELSE WIDGETS[e]]
    /\ UNCHANGED <<pc, importExc, options, optFetched, lister, reqs, upstream, api, registration>>

\* GET /widgets.json: return WIDGETS
get_widgets ==
    /\ Serving
    /\ LoopFree(0)
    /\ published' = [endpoint |-> "/widgets.json", body |-> WIDGETS]
    /\ UNCHANGED <<pc, importExc, WIDGETS, options, optFetched, lister, reqs, upstream, api, registration>>

\* GET /apps.json: the content of the file apps.json
get_apps ==
    /\ Serving
    /\ LoopFree(0)
    /\ published' = [endpoint |-> "/apps.json", body |-> [file |-> "apps.json"]]
    /\ UNCHANGED <<pc, importExc, WIDGETS, options, optFetched, lister, reqs, upstream, api, registration>>

----------------------------------------------------------------------------
(* register_widget as a decorator: its applications and what it returns *)

NoConfig == [none |-> TRUE]

NoCall ==
    [made |-> FALSE, widget |-> "", disc |-> <<>>, outcome |-> NoOutcome,
     order |-> <<>>, result |-> NoResponse]

NoRegistration == [applied |-> NoConfig, before |-> [e \in {} |-> e], call |-> NoCall]

\* def sync_wrapper(*args, **kwargs): return func(*args, **kwargs)
sync_wrapper(w, outcome, disc, order) == Handler(w, outcome, disc, order)

\* async def async_wrapper(*args, **kwargs): return await func(*args, **kwargs)
async_wrapper(w, outcome, disc, order) == Handler(w, outcome, disc, order)

\* what the decorator returns for the handler of w:
\* async_wrapper if asyncio.iscoroutinefunction(func), else sync_wrapper
Decorated(w, outcome, disc, order) ==
    IF IsCoroutine(w) THEN async_wrapper(w, outcome, disc, order)
    ELSE sync_wrapper(w, outcome, disc, order)

\* register_widget(config)(func): the registry before the application is
\* kept in registration.before
Register(config) ==
    /\ WIDGETS' = register_widget(WIDGETS, config)
    /\ registration' = [registration EXCEPT !.applied = config, !.before = WIDGETS]
    /\ UNCHANGED <<pc, importExc, options, optFetched, lister, reqs, upstream, api, published>>

\* a direct call of the module-level name of the handler of w, which is
\* bound to the function register_widget returned
CallDecorated(w, disc) ==
    /\ Completes(upstream[Url(w)], HasTimeout(w))
    /\ \E order \in SeqPerms(AllComponents(w, upstream[Url(w)].text)) :
           registration' =
               [registration EXCEPT
                   !.call = [made |-> TRUE, widget |-> w, disc |-> disc,
                             outcome |-> upstream[Url(w)], order |-> order,
                             result |-> Decorated(w, upstream[Url(w)], disc, order)]]
    /\ UNCHANGED <<pc, importExc, WIDGETS, options, optFetched, lister, reqs, upstream, api, published>>

----------------------------------------------------------------------------
(* Specifications *)

InitProgram ==
    /\ pc = 1
    /\ importExc = "none"
    /\ WIDGETS = [e \in {} |-> e]
    /\ options = [w \in GenericWidgets |-> <<>>]
    /\ optFetched = [w \in GenericWidgets |-> NoOutcome]
    /\ lister = [called |-> FALSE, outcome |-> NoOutcome, result |-> ListerResult("none", <<>>)]
    /\ reqs = [r \in ReqIds |-> IdleReq]
    /\ published = NoPublished
    /\ registration = NoRegistration

\* The server: the import, then up to MaxReqs requests in flight over an
\* upstream that changes.
\* a host that does not answer, and a file whose second row has no count
ServerFile ==
    CsvText(<<"filing_date", "count", "component">>,
            <<Rec(Str_d1, Str_5, Str_a, 3), Rec(Str_d2, <<>>, Str_b, 3)>>)

ServerPool == {FetchError("Timeout"), Fetched(ServerFile)}

ServerWidgets == {"ipo_index_widget", "chemicals_widget"}

\* the URLs whose host starts and stops answering while the server runs
ServerUrls == {Url(w) : w \in ServerWidgets}

\* the requests sent: for a component with a usable row, for one the file
\* lacks, and for one whose only row has no count
ServerRequests ==
    {<<"ipo_index_widget", Str_a>>, <<"chemicals_widget", Str_A>>, <<"chemicals_widget", Str_b>>}

ServerApi == {"json", "silent"}

Init ==
    /\ InitProgram
    /\ upstream \in [Urls -> ServerPool]
    /\ upstream[Url("consumer_confidence_widget")] = FetchError("Timeout")
    /\ api \in ServerApi

Next ==
    \/ ImportStatic
    \/ ImportGeneric
    \/ \E r \in ReqIds, q \in ServerRequests : Receive(r, q[1], q[2])
    \/ \E r \in ReqIds : FetchRaises(r)
    \/ \E r \in ReqIds : FetchReturns(r)
    \/ \E r \in ReqIds : Deliver(r)
    \/ \E u \in ServerUrls, outcome \in ServerPool : UpstreamChanges(u, outcome)
    \/ \E r \in ReqIds : ReceiveApi(r)
    \/ \E r \in ReqIds : ApiAnswers(r)
    \/ \E a \in ServerApi : ApiChanges(a)
    \/ read_root
    \/ get_widgets
    \/ get_apps

Spec == Init /\ [][Next]_vars

\* The pipeline on every input of ExtractPool: one request at a time, every
\* URL serving the same outcome.
InitExtract ==
    /\ InitProgram
    /\ \E outcome \in ExtractPool : upstream = [u \in Urls |-> outcome]
    /\ api = "json"

NextExtract ==
    \/ ImportStatic
    \/ ImportGeneric
    \/ \E w \in ParamWidgets, disc \in Discriminators : Receive(1, w, disc)
    \/ FetchRaises(1)
    \/ FetchReturns(1)
    \/ Deliver(1)

SpecExtract == InitExtract /\ [][NextExtract]_vars

\* The option listers on every input of OptionPool.
InitOptions ==
    /\ InitProgram
    /\ \E outcome \in OptionPool : upstream = [u \in Urls |-> outcome]
    /\ api = "json"

NextOptions ==
    \/ ImportStatic
    \/ ImportGeneric
    \/ CallLister

SpecOptions == InitOptions /\ [][NextOptions]_vars

\* The start of the process on every combination of what the four URLs
\* serve (a host that does not answer, an error status, two files with
\* different components), then GET /widgets.json.  The import is a sequence
\* of statements: each block runs once the one before it has returned.
StartupFile(comp) ==
    CsvText(<<"filing_date", "count", "component">>, <<Rec(Str_d1, Str_5, comp, 3)>>)

StartupPool ==
    {FetchError("Timeout"), FetchError("HTTPError"),
     Fetched(StartupFile(Str_a)), Fetched(StartupFile(Str_b))}

InitStartup ==
    /\ InitProgram
    /\ upstream \in [Urls -> StartupPool]
    /\ api = "json"

NextStartup ==
    \/ ImportStatic
    \/ ImportGeneric
    \/ get_widgets

SpecStartup ==
    InitStartup /\ [][NextStartup]_vars /\ WF_vars(ImportStatic) /\ WF_vars(ImportGeneric)

\* The program over hosts that never answer: the import, then requests to
\* every endpoint that fetches.  A statement of the import runs when the one
\* before it has returned, a get with a timeout raises when the timeout is
\* over, and FastAPI sends the response of a handler that has ended.
SilentDiscs == {Str_a, Str_b}

InitSilent ==
    /\ InitProgram
    /\ upstream = [u \in Urls |-> FetchError("Timeout")]
    /\ api = "silent"

NextSilent ==
    \/ ImportStatic
    \/ ImportGeneric
    \/ \E r \in ReqIds, w \in ParamWidgets, disc \in SilentDiscs : Receive(r, w, disc)
    \/ \E r \in ReqIds : FetchRaises(r)
    \/ \E r \in ReqIds : Deliver(r)
    \/ \E r \in ReqIds : ReceiveApi(r)

SpecSilent ==
    /\ InitSilent
    /\ [][NextSilent]_vars
    /\ WF_vars(ImportStatic)
    /\ WF_vars(ImportGeneric)
    /\ \A r \in ReqIds : WF_vars(FetchRaises(r)) /\ WF_vars(Deliver(r))

\* The "not found" message on files of up to MaxSampleRows rows: row i has
\* the component of number ((i - 1) mod m) + 1 for an m below MaxSampleRows,
\* so that a file carries at most MaxSampleRows - 1 distinct components.
SampleFile(n, m) ==
    CsvText(<<"filing_date", "count", "component">>,
            [i \in 1..n |-> Rec(Str_d1, Str_5, <<LowerLetters[((i - 1) % m) + 1]>>, 3)])

SamplePool ==
    {Fetched(SampleFile(n, m)) : n \in 2..MaxSampleRows, m \in 1..(MaxSampleRows - 1)}
    \cup {Fetched(SampleFile(n, 1)) : n \in 0..1}

\* "A" is the component of no row, "b" of the second row
SampleDiscs == {Str_A, Str_b}

InitSample ==
    /\ InitProgram
    /\ \E outcome \in SamplePool : upstream = [u \in Urls |-> outcome]
    /\ api = "json"

NextSample ==
    \/ ImportStatic
    \/ ImportGeneric
    \/ \E w \in ParamWidgets, disc \in SampleDiscs : Receive(1, w, disc)
    \/ FetchReturns(1)
    \/ Deliver(1)

SpecSample == InitSample /\ [][NextSample]_vars

\* The same request sent more than once while the upstream does not change:
\* a host that answers an error status, and a file whose rows after the first
\* carry two components.
RepeatFile ==
    CsvText(<<"filing_date", "count", "component">>,
            <<Rec(Str_d1, Str_5, Str_a, 3), Rec(Str_d2, <<>>, Str_b, 3),
              Rec(<<" ", "d", "1", " ">>, Str_7, <<"c">>, 3)>>)

RepeatPool == {FetchError("HTTPError"), Fetched(RepeatFile)}

RepeatRequests ==
    {<<"ipo_index_widget", Str_A>>, <<"chemicals_widget", Str_A>>,
     <<"chemicals_widget", Str_b>>, <<"chemicals_widget", <<"c">>>>}

InitRepeat ==
    /\ InitProgram
    /\ \E outcome \in RepeatPool : upstream = [u \in Urls |-> outcome]
    /\ api = "json"

NextRepeat ==
    \/ ImportStatic
    \/ ImportGeneric
    \/ \E r \in ReqIds, q \in RepeatRequests : Receive(r, q[1], q[2])
    \/ \E r \in ReqIds : FetchRaises(r)
    \/ \E r \in ReqIds : FetchReturns(r)
    \/ \E r \in ReqIds : Deliver(r)

SpecRepeat == InitRepeat /\ [][NextRepeat]_vars

\* register_widget applied, in every order, to configs with and without an
\* "endpoint" and an "id", and the functions it returned called directly.
RegisterEndpoints == {"ipo_index_widget", "chemicals_widget"}

RegisterNames == {"First", "Second"}

RegisterConfigs ==
    {[endpoint |-> e, name |-> n] : e \in RegisterEndpoints, n \in RegisterNames}
    \cup {[endpoint |-> e, name |-> n, id |-> "custom"] :
              e \in RegisterEndpoints, n \in RegisterNames}
    \cup {[name |-> n] : n \in RegisterNames}
    \cup {[endpoint |-> "", name |-> n] : n \in RegisterNames}

RegisterPool == {FetchError("HTTPError"), Fetched(StartupFile(Str_a))}

RegisterDiscs == {Str_a, Str_b}

InitRegister ==
    /\ InitProgram
    /\ \E outcome \in RegisterPool : upstream = [u \in Urls |-> outcome]
    /\ api = "json"

NextRegister ==
    \/ \E config \in RegisterConfigs : Register(config)
    \/ \E w \in RegisterEndpoints, disc \in RegisterDiscs : CallDecorated(w, disc)

SpecRegister == InitRegister /\ [][NextRegister]_vars

----------------------------------------------------------------------------
(* What the claims speak of, read off the fetched text itself *)

Done(r) == reqs[r].st = "done"

\* the text is a CSV: csv.reader reads all of it
Parses(text) == \A i \in 1..Len(text) : ~text[i].bad

\* the header row holds filing_date, count and component
RequiredHeaders(text) ==
    /\ text # <<>>
    /\ {"filing_date", "count", "component"} \subseteq Range(text[1].fields)

\* the value a data row has in a column (None when the row is too short),
\* for a header without repeated names
Cell(text, i, column) ==
    LET header == text[1].fields
        at == CHOOSE k \in 1..Len(header) : header[k] = column
    IN  IF at <= Len(text[i].fields) THEN text[i].fields[at] ELSE None

\* the indices of the data rows of the text (the blank lines are no rows)
RowIndices(text) == {i \in 2..Len(text) : text[i].fields # <<>>}

\* the data rows whose component is the discriminator
Matching(text, disc) == {i \in RowIndices(text) : Cell(text, i, "component") = disc}

Missing(v) == v = None \/ Strip(v) = <<>>

\* a row with a filing_date and a count that float() accepts
Usable(text, i) ==
    /\ ~Missing(Cell(text, i, "filing_date"))
    /\ ~Missing(Cell(text, i, "count"))
    /\ ParseFloat(Cell(text, i, "count")).ok

UsableMatching(text, disc) == {i \in Matching(text, disc) : Usable(text, i)}

\* the entries of the rows of S, by rising row index
RECURSIVE EntriesOf(_, _)
EntriesOf(text, S) ==
    IF S = {} THEN <<>>
    ELSE LET i == CHOOSE k \in S : \A j \in S : j <= k
         IN  EntriesOf(text, S \ {i})
             \o <<[filing_date |-> Cell(text, i, "filing_date"),
                   count |-> [kind |-> ParseFloat(Cell(text, i, "count")).kind,
                              val |-> ParseFloat(Cell(text, i, "count")).val]]>>

\* a request that got a CSV with the required headers
GotCsv(r) ==
    /\ Done(r)
    /\ reqs[r].outcome.ok
    /\ Parses(reqs[r].outcome.text)
    /\ RequiredHeaders(reqs[r].outcome.text)

----------------------------------------------------------------------------
(* C1 *)

\* C1: a request whose fetch succeeded and whose CSV has the three required
\* headers, but whose discriminator is absent from the file or has no usable
\* row, is answered with status 404 and a detail message.
C1_NotFoundIs404 ==
    \A r \in ReqIds :
        (GotCsv(r) /\ UsableMatching(reqs[r].outcome.text, reqs[r].disc) = {})
            => (reqs[r].resp.status = 404 /\ reqs[r].resp.detail # "")

(* C2 *)

\* C2: when the discriminator is the component of some data row (the first one
\* included) and every such row has an empty or missing count or filing_date,
\* extraction fails with the "no usable data" cause, without a sample list.
C2_PresentButUnusableIsNoData ==
    \A r \in ReqIds :
        LET text == reqs[r].outcome.text
            disc == reqs[r].disc
        IN  (/\ GotCsv(r)
             /\ Matching(text, disc) # {}
             /\ \A i \in Matching(text, disc) :
                    Missing(Cell(text, i, "count")) \/ Missing(Cell(text, i, "filing_date")))
                => (reqs[r].resp.cause = "nodata" /\ reqs[r].resp.sample = <<>>)

(* C3 *)

\* C3: when the discriminator is the component of no data row, extraction
\* fails with the "unknown discriminator" cause and every value of the sample
\* list is the component of some data row of the file.
C3_AbsentIsUnknown ==
    \A r \in ReqIds :
        LET text == reqs[r].outcome.text
        IN  (GotCsv(r) /\ Matching(text, reqs[r].disc) = {})
                => /\ reqs[r].resp.cause = "unknown"
                   /\ \A k \in 1..Len(reqs[r].resp.sample) :
                          \E i \in RowIndices(text) :
                              Cell(text, i, "component") = reqs[r].resp.sample[k]

(* C4 *)

\* C4: when some row matches the discriminator with a non-empty filing_date
\* and a count float() accepts, the request succeeds and its series is the
\* entries of exactly those rows, in the order of the file.
C4_SeriesIsUsableMatchingRows ==
    \A r \in ReqIds :
        LET text == reqs[r].outcome.text
        IN  (GotCsv(r) /\ UsableMatching(text, reqs[r].disc) # {})
                => /\ reqs[r].resp.status = 200
                   /\ reqs[r].resp.series = EntriesOf(text, UsableMatching(text, reqs[r].disc))

\* a series of two entries whose dates are not in rising order
C4_Witness ==
    \E r \in ReqIds :
        /\ GotCsv(r)
        /\ Len(reqs[r].resp.series) = 2
        /\ reqs[r].resp.series[1].filing_date = Str_d2
        /\ reqs[r].resp.series[2].filing_date = <<" ", "d", "1", " ">>

(* C5 *)

\* C5: a request whose upstream fetch failed is answered with status 503 and
\* a non-empty detail, and with no series.
C5_FetchFailureIs503 ==
    \A r \in ReqIds :
        (Done(r) /\ ~reqs[r].outcome.ok)
            => /\ reqs[r].resp.status = 503
               /\ reqs[r].resp.detail # ""
               /\ reqs[r].resp.series = <<>>

C5_Witness ==
    \E r \in ReqIds :
        /\ Done(r)
        /\ reqs[r].outcome = FetchError("Timeout")
        /\ reqs[r].resp.status = 503

(* C6 *)

\* C6: when the header row of the fetched CSV lacks filing_date, count or
\* component, the request fails with the schema error and status 500 whatever
\* the discriminator is, before any row is read.
C6_MissingHeaderIsSchemaError ==
    \A r \in ReqIds :
        LET text == reqs[r].outcome.text
        IN  (/\ Done(r)
             /\ reqs[r].outcome.ok
             /\ ~FieldnamesRaise(text)
             /\ ~RequiredHeaders(text))
                => /\ reqs[r].resp.status = 500
                   /\ reqs[r].resp.exc = "HTTPException"
                   /\ reqs[r].resp.excStatus = 500
                   /\ reqs[r].resp.cause = "schema"
                   /\ reqs[r].resp.read = 0
                   /\ reqs[r].resp.series = <<>>
                   /\ reqs[r].resp.sample = <<>>

\* a CSV without the count column whose one row has the discriminator as its
\* component
C6_Witness ==
    \E r \in ReqIds :
        /\ Done(r)
        /\ reqs[r].outcome.ok
        /\ reqs[r].outcome.text =
               CsvText(<<"filing_date", "component">>, <<Rec(Str_d1, Str_5, Str_a, 3)>>)
        /\ reqs[r].disc = Str_a
        /\ reqs[r].resp.cause = "schema"

(* C7 *)

\* C7: every entry of a returned series has a non-empty filing_date and a
\* finite count.
C7_SeriesEntriesFinite ==
    \A r \in ReqIds :
        (Done(r) /\ reqs[r].resp.status = 200)
            => \A k \in 1..Len(reqs[r].resp.series) :
                   /\ reqs[r].resp.series[k].filing_date # <<>>
                   /\ reqs[r].resp.series[k].count.kind = "finite"

(* C8 *)

\* C8: a request whose discriminator is the value of the first option the
\* option lister returned for the same file content never ends with the
\* "unknown discriminator" cause.
C8_FirstOptionIsKnown ==
    \A r \in ReqIds : \A w \in GenericWidgets :
        (/\ Done(r)
         /\ reqs[r].widget = w
         /\ reqs[r].outcome = optFetched[w]
         /\ options[w] # <<>>
         /\ reqs[r].disc = options[w][1].value)
            => reqs[r].resp.cause # "unknown"

----------------------------------------------------------------------------
(* C9, C10: the option listers *)

\* fetch_options_sync ran for widget w
Listed(w) == optFetched[w] # NoOutcome

\* the lister got a CSV with a component column
ListerInputOk(outcome) ==
    /\ outcome.ok
    /\ Parses(outcome.text)
    /\ outcome.text # <<>>
    /\ "component" \in Range(outcome.text[1].fields)

\* the distinct non-empty component values of the data rows
FileComponents(text) ==
    {Cell(text, i, "component") : i \in RowIndices(text)} \ {None, <<>>}

\* label is value with "_" replaced by " " and title-cased: a letter is in
\* upper case at the start and after a character that is no letter, in lower
\* case after a letter
IsLabelOf(label, value) ==
    /\ Len(label) = Len(value)
    /\ \A i \in 1..Len(value) :
           LET c == IF value[i] = "_" THEN " " ELSE value[i]
               afterLetter == i > 1 /\ IsCased(value[i - 1])
           IN  label[i] = IF afterLetter THEN ToLower(c) ELSE ToUpper(c)

OptionsOfFile(opts, text) ==
    /\ {opts[k].value : k \in 1..Len(opts)} = FileComponents(text)
    /\ Len(opts) = Cardinality(FileComponents(text))
    /\ \A k \in 1..Len(opts) : IsLabelOf(opts[k].label, opts[k].value)
    /\ \A j, k \in 1..Len(opts) : j < k => ~StrLess(opts[k].label, opts[j].label)

\* C9: for a CSV with a component column a lister returns one option per
\* distinct non-empty component value, each with the raw value and the
\* title-cased label, in ascending order of label.
C9_OptionsAreDistinctComponents ==
    /\ \A w \in GenericWidgets :
           (Listed(w) /\ ListerInputOk(optFetched[w]))
               => OptionsOfFile(options[w], optFetched[w].text)
    /\ (lister.called /\ ListerInputOk(lister.outcome))
           => OptionsOfFile(lister.result.value, lister.outcome.text)

\* three options, two of them with the same label
C9_Witness ==
    /\ Listed("chemicals_widget")
    /\ ListerInputOk(optFetched["chemicals_widget"])
    /\ Len(options["chemicals_widget"]) = 3
    /\ options["chemicals_widget"][1].label = options["chemicals_widget"][2].label
    /\ options["chemicals_widget"][3].value = Str_b_a
    /\ lister.called
    /\ Len(lister.result.value) = 3

\* the lister has nothing to list: the fetch failed, the text is no CSV or it
\* has no component column
ListerInputBad(outcome) ==
    \/ ~outcome.ok
    \/ ~Parses(outcome.text)
    \/ outcome.text = <<>>
    \/ "component" \notin Range(outcome.text[1].fields)

\* C10: no exception leaves a lister; on a failed fetch, a header without
\* component or a parse failure it returns the empty list (and the import of
\* main.py goes on to register the widget).
C10_ListerNeverRaises ==
    /\ importExc = "none"
    /\ lister.result.exc = "none"
    /\ \A w \in GenericWidgets :
           (Listed(w) /\ ListerInputBad(optFetched[w]))
               => (options[w] = <<>> /\ w \in DOMAIN WIDGETS)
    /\ (lister.called /\ ListerInputBad(lister.outcome)) => lister.result.value = <<>>

\* both listers met a text csv.reader rejects after a good header and data row
C10_Witness ==
    /\ Listed("war_widget")
    /\ optFetched["war_widget"].ok
    /\ Len(optFetched["war_widget"].text) > 2
    /\ ~optFetched["war_widget"].text[1].bad
    /\ ~Parses(optFetched["war_widget"].text)
    /\ "war_widget" \in DOMAIN WIDGETS
    /\ lister.called
    /\ lister.outcome = optFetched["war_widget"]

----------------------------------------------------------------------------
(* C11, C12: the options and the default of a registered widget *)

\* the "type" parameter of the registered descriptor of w
TypeParamOf(w) == WIDGETS[w].params[1]

OptionValues(opts) == {opts[k].value : k \in 1..Len(opts)}

\* C11: a registered format1 widget carries the option list its start-up
\* call of fetch_options_sync returned; its default is the value of the first
\* option when the list is not empty and "" when it is (the fetch or the
\* listing failed, or the file has no component), so a default other than ""
\* is the value of one of the options.
C11_DefaultIsFirstOption ==
    \A w \in GenericWidgets :
        w \in DOMAIN WIDGETS =>
            /\ TypeParamOf(w).options = options[w]
            /\ options[w] # <<>> => TypeParamOf(w).value = options[w][1].value
            /\ options[w] = <<>> => TypeParamOf(w).value = <<>>
            /\ (ListerInputBad(optFetched[w]) \/ FileComponents(optFetched[w].text) = {})
                   => TypeParamOf(w).value = <<>>
            /\ TypeParamOf(w).value # <<>> => TypeParamOf(w).value \in OptionValues(options[w])

\* a widget registered with three options whose default is the first by label
\* and not the last
C11_Witness ==
    /\ "war_widget" \in DOMAIN WIDGETS
    /\ Len(options["war_widget"]) = 3
    /\ TypeParamOf("war_widget").value = options["war_widget"][1].value
    /\ TypeParamOf("war_widget").value # options["war_widget"][3].value

\* the option lists fetch_options_sync can return for an outcome
ListerOutputs(outcome) ==
    {fetch_options_sync(outcome, order).value :
        order \in SeqPerms(ListedComponents(outcome.text))}

\* the CSV URL the block of each widget names
OwnUrl(w) ==
    CASE w = "ipo_index_widget" -> "Corporate%20Finance/ipo/overview.csv"
      [] w = "consumer_confidence_widget" -> "Consumer%20Sentiment/consumer-confidence/overview.csv"
      [] w = "chemicals_widget" -> "Resources/chemicals/overview.csv"
      [] w = "war_widget" -> "War/war/overview.csv"

\* the "type" parameter w has in the last /widgets.json response
PublishedParam(w) == published.body[w].params[1]

\* /widgets.json shows for w what the lister makes of the outcome
PublishedAsListed(w, outcome) ==
    /\ w \in DOMAIN published.body
    /\ PublishedParam(w).options \in ListerOutputs(outcome)
    /\ PublishedParam(w).value =
           IF PublishedParam(w).options = <<>> THEN <<>>
           ELSE PublishedParam(w).options[1].value

\* /widgets.json shows for w the list written in its registration
PublishedAsWritten(w, opts) ==
    /\ w \in DOMAIN published.body
    /\ PublishedParam(w).options = opts
    /\ PublishedParam(w).value = opts[1].value

----------------------------------------------------------------------------
(* C13: the registry after the import *)

\* C13: once main.py is imported no step of any request (to a widget
\* endpoint, /widgets.json, /apps.json or /) changes WIDGETS, every
\* /widgets.json response is the registry, and two /widgets.json responses
\* in a row are equal.
C13_RegistryFrozenAfterStartup ==
    [][Serving =>
          /\ Serving'
          /\ WIDGETS' = WIDGETS
          /\ published'.endpoint = "/widgets.json" => published'.body = WIDGETS
          /\ (published.endpoint = "/widgets.json" /\ published'.endpoint = "/widgets.json")
                 => published'.body = published.body]_vars

\* /widgets.json answered while a chemicals_widget request is done whose
\* URL no longer serves what it served at start-up, when it gave two options
C13_Witness ==
    /\ published.endpoint = "/widgets.json"
    /\ Len(published.body["chemicals_widget"].params[1].options) = 2
    /\ upstream[OwnUrl("chemicals_widget")] # optFetched["chemicals_widget"]
    /\ \E r \in ReqIds :
           /\ Done(r)
           /\ reqs[r].widget = "chemicals_widget"
           /\ reqs[r].outcome # optFetched["chemicals_widget"]

----------------------------------------------------------------------------
(* C14: the fetches of one request *)

\* a request to a parameterized widget whose handler is running or has ended
Started(r) == reqs[r].st # "idle" /\ reqs[r].widget \in ParamWidgets

\* C14: a request to a parameterized widget calls requests.get once: it is
\* in flight or done with one fetch made, a failed fetch is answered 503 at
\* once, and an empty result is classified ("unknown" or "nodata") from the
\* text of that one fetch, whatever the URL serves by then.
C14_OneFetchPerRequest ==
    \A r \in ReqIds :
        Started(r) =>
            /\ reqs[r].fetches = 1
            /\ (Done(r) /\ ~reqs[r].outcome.ok) => reqs[r].resp.status = 503
            /\ (Done(r) /\ reqs[r].resp.cause \in {"unknown", "nodata"}) =>
                   /\ reqs[r].outcome.ok
                   /\ reqs[r].resp.cause = "nodata"
                          <=> reqs[r].disc \in AllComponents(reqs[r].widget, reqs[r].outcome.text)

\* one request classified as unknown after its URL stopped answering, while
\* another request was answered 503
C14_Witness ==
    \E r, q \in ReqIds :
        /\ Done(r)
        /\ reqs[r].widget = "chemicals_widget"
        /\ reqs[r].resp.cause = "unknown"
        /\ reqs[r].fetches = 1
        /\ ~upstream[OwnUrl("chemicals_widget")].ok
        /\ Done(q)
        /\ reqs[q].resp.status = 503
        /\ reqs[q].fetches = 1

----------------------------------------------------------------------------
(* C15: timeouts *)

\* C15: every get the program issues has the timeout: the start-up fetch
\* has, and a handler that waits for a host that does not answer can always
\* end its wait (by the Timeout its get raises).
C15_EveryFetchTimesOut ==
    /\ fetch_options_sync_timeout
    /\ \A r \in ReqIds :
           reqs[r].st = "fetching" => ENABLED (FetchRaises(r) \/ ApiAnswers(r))

\* over hosts that never answer the import ends, and every handler that
\* started ends, with the fetch error
C15_SilentUpstreamEndsInFetchError ==
    /\ <>Serving
    /\ \A r \in ReqIds :
           (reqs[r].st = "fetching") ~> (Done(r) /\ reqs[r].resp.exc # "none")

----------------------------------------------------------------------------
(* C16: a request in flight and the other requests *)

\* the next step of request q can be taken: it can start, its get can return
\* or raise, its response can be sent
CanProgress(q) ==
    /\ reqs[q].st = "idle" => \A p \in ServerRequests : ENABLED Receive(q, p[1], p[2])
    /\ (reqs[q].st = "fetching" /\ reqs[q].widget \in ParamWidgets)
           => (MayReturn(q) \/ ENABLED FetchRaises(q))
    /\ reqs[q].st = "done" => ENABLED Deliver(q)

\* C16: while the get of a request to a parameterized widget (the coroutine
\* of a format1 endpoint or the "def" handler ipo_index_widget) is
\* outstanding, every other request can take its next step and
\* /widgets.json can be answered.
C16_PendingFetchBlocksNoOne ==
    \A r \in ReqIds :
        (Started(r) /\ reqs[r].st = "fetching") =>
            /\ \A q \in ReqIds \ {r} : CanProgress(q)
            /\ ENABLED get_widgets

\* a request started and answered while the get of a chemicals_widget
\* request was outstanding all along
C16_Witness ==
    \E r, q \in ReqIds :
        /\ reqs[r].st = "fetching"
        /\ reqs[r].widget = "chemicals_widget"
        /\ Done(q)
        /\ reqs[q].widget = "ipo_index_widget"
        /\ reqs[q].resp.status = 200

----------------------------------------------------------------------------
(* C17: the import and the first request *)

\* every parameterized widget is registered, the format1 ones with the
\* options their start-up fetch gave
RegistryComplete ==
    \A w \in ParamWidgets :
        /\ w \in DOMAIN WIDGETS
        /\ w \in GenericWidgets => (Listed(w) /\ TypeParamOf(w).options = options[w])

\* C17: whenever a handler is running or has answered, and whenever /,
\* /widgets.json or /apps.json has been answered, every parameterized widget
\* is registered with its options resolved, and a /widgets.json response
\* shows all of them.
C17_NoRequestBeforeStartupEnds ==
    /\ (\E r \in ReqIds : reqs[r].st # "idle") => RegistryComplete
    /\ published # NoPublished => RegistryComplete
    /\ published.endpoint = "/widgets.json" =>
           \A w \in ParamWidgets :
               /\ w \in DOMAIN published.body
               /\ w \in GenericWidgets => PublishedParam(w).options = options[w]

\* a request in flight and a /widgets.json response after a start-up in which
\* the fetch for chemicals_widget failed and the one for war_widget did not
C17_Witness ==
    /\ \E r \in ReqIds : reqs[r].st = "fetching"
    /\ published.endpoint = "/widgets.json"
    /\ ~optFetched["chemicals_widget"].ok
    /\ PublishedParam("chemicals_widget").options = <<>>
    /\ Len(PublishedParam("war_widget").options) = 2

----------------------------------------------------------------------------
(* C18: the end of the import *)

\* the import is over and every format1 widget is registered: with no options
\* and the default "" when its fetch failed, with the options of its own
\* file and the first of them as default when it did not
StartupDone ==
    /\ Serving
    /\ \A w \in GenericWidgets :
           /\ w \in DOMAIN WIDGETS
           /\ ~upstream[OwnUrl(w)].ok =>
                  (TypeParamOf(w).options = <<>> /\ TypeParamOf(w).value = <<>>)
           /\ upstream[OwnUrl(w)].ok =>
                  /\ OptionsOfFile(TypeParamOf(w).options, upstream[OwnUrl(w)].text)
                  /\ TypeParamOf(w).value = TypeParamOf(w).options[1].value

\* C18: whatever each URL does at start-up (serves a file, answers with an
\* error status, does not answer), the import comes to its end and stays
\* there, with every format1 widget registered as StartupDone says.
C18_StartupTerminates == <>[]StartupDone

\* the import over after the host of chemicals_widget did not answer, the
\* one of war_widget served a file, and ipo_index_widget's answered an error
C18_Witness ==
    /\ Serving
    /\ upstream[OwnUrl("chemicals_widget")] = FetchError("Timeout")
    /\ upstream[OwnUrl("ipo_index_widget")] = FetchError("HTTPError")
    /\ upstream[OwnUrl("war_widget")] = Fetched(StartupFile(Str_b))
    /\ TypeParamOf("chemicals_widget").options = <<>>
    /\ TypeParamOf("war_widget").value = Str_b

----------------------------------------------------------------------------
(* C19: requests are independent *)

\* the response the pipeline of request r gives for what r itself fetched and
\* was asked, with the set all_components iterated in the given order
OwnResponse(r, order) ==
    CASE reqs[r].widget = "ipo_index_widget" ->
            ipo_index_widget(reqs[r].outcome, reqs[r].disc, order)
      [] reqs[r].widget = "consumer_confidence_widget" ->
            consumer_confidence_widget(reqs[r].outcome, reqs[r].disc, order)
      [] OTHER -> endpoint_logic(reqs[r].outcome, reqs[r].disc, order)

\* C19: under every interleaving the response of a request to a
\* parameterized widget is the one its own fetch result and discriminator
\* give, whatever the other requests fetched and whatever the other URLs do;
\* two requests with the same widget, fetch result and discriminator get the
\* same status, series and cause.
C19_ResponseIsOwn ==
    /\ \A r \in ReqIds :
           (Done(r) /\ Started(r)) =>
               \E order \in SeqPerms(AllComponents(reqs[r].widget, reqs[r].outcome.text)) :
                   reqs[r].resp = OwnResponse(r, order)
    /\ \A r, q \in ReqIds :
           (/\ Done(r) /\ Started(r) /\ Done(q)
            /\ reqs[q].widget = reqs[r].widget
            /\ reqs[q].disc = reqs[r].disc
            /\ reqs[q].outcome = reqs[r].outcome)
               => /\ reqs[q].resp.status = reqs[r].resp.status
                  /\ reqs[q].resp.series = reqs[r].resp.series
                  /\ reqs[q].resp.cause = reqs[r].resp.cause

\* a chemicals_widget request answered from its file while an
\* ipo_index_widget request got the 503 and the host of ipo_index_widget
\* still does not answer
C19_Witness ==
    \E r, q \in ReqIds :
        /\ Done(r)
        /\ reqs[r].widget = "ipo_index_widget"
        /\ reqs[r].resp.status = 503
        /\ ~upstream[OwnUrl("ipo_index_widget")].ok
        /\ Done(q)
        /\ reqs[q].widget = "chemicals_widget"
        /\ reqs[q].outcome.ok
        /\ reqs[q].resp.cause = "nodata"

----------------------------------------------------------------------------
(* C20: a row that cannot be used is dropped, the others are returned *)

\* the matching rows the loop skips: filing_date or count missing or blank,
\* or a count float() rejects
BadMatching(text, disc) == Matching(text, disc) \ UsableMatching(text, disc)

\* the text without the lines of S
WithoutRows(text, S) ==
    LET upTo[i \in 0..Len(text)] ==
            IF i = 0 THEN <<>>
            ELSE IF i \in S THEN upTo[i - 1]
            ELSE Append(upTo[i - 1], text[i])
    IN  upTo[Len(text)]

\* C20: when a CSV with the required headers has a row of the discriminator
\* that cannot be used next to one that can, the request is answered 200
\* with one entry per usable row and none for the other, and the status,
\* series and detail are the ones the same file without the unusable rows
\* gives.
C20_BadRowIsDroppedOthersReturned ==
    \A r \in ReqIds :
        LET text == reqs[r].outcome.text
            disc == reqs[r].disc
            clean == Handler(reqs[r].widget,
                             Fetched(WithoutRows(text, BadMatching(text, disc))),
                             disc, <<>>)
        IN  (/\ GotCsv(r)
             /\ BadMatching(text, disc) # {}
             /\ UsableMatching(text, disc) # {})
                => /\ reqs[r].resp.status = 200
                   /\ Len(reqs[r].resp.series) = Cardinality(UsableMatching(text, disc))
                   /\ \A k \in 1..Len(reqs[r].resp.series) :
                          \E i \in UsableMatching(text, disc) :
                              reqs[r].resp.series[k].filing_date = Cell(text, i, "filing_date")
                   /\ reqs[r].resp.status = clean.status
                   /\ reqs[r].resp.series = clean.series
                   /\ reqs[r].resp.detail = clean.detail

\* the rows (d1, 5, a) and ("", 7, a) asked for a: the series is the one
\* entry (d1, 5.0)
C20_Witness ==
    \E r \in ReqIds :
        /\ GotCsv(r)
        /\ reqs[r].disc = Str_a
        /\ reqs[r].outcome.text =
               CsvText(<<"filing_date", "count", "component">>,
                       <<Rec(Str_d1, Str_5, Str_a, 3), Rec(<<>>, Str_7, Str_a, 3)>>)
        /\ Len(reqs[r].resp.series) = 1
        /\ reqs[r].resp.series[1].filing_date = Str_d1
        /\ reqs[r].resp.series[1].count = [kind |-> ParseFloat(Str_5).kind,
                                           val |-> ParseFloat(Str_5).val]

----------------------------------------------------------------------------
(* C21: the filter key *)

\* the entry the loop appends for data row i
EntryOfRow(text, i) ==
    [filing_date |-> Cell(text, i, "filing_date"),
     count |-> [kind |-> ParseFloat(Cell(text, i, "count")).kind,
                val |-> ParseFloat(Cell(text, i, "count")).val]]

\* the discriminator is the label of the component of some data row and the
\* component of none
IsLabelOnly(text, disc) ==
    /\ Matching(text, disc) = {}
    /\ \E i \in RowIndices(text) :
           /\ Cell(text, i, "component") # None
           /\ Option(Cell(text, i, "component")).label = disc

\* C21: every entry of a series comes from a row whose component is, as
\* read from the file, equal to the discriminator; a discriminator that is
\* the component of no row (the label of an option included, or the same
\* letters in another case) gets no entry and no status 200.
C21_FilterIsExactComponentEquality ==
    \A r \in ReqIds :
        LET text == reqs[r].outcome.text
            disc == reqs[r].disc
        IN  GotCsv(r) =>
                /\ \A k \in 1..Len(reqs[r].resp.series) :
                       \E i \in Matching(text, disc) :
                           reqs[r].resp.series[k] = EntryOfRow(text, i)
                /\ Matching(text, disc) = {} =>
                       (reqs[r].resp.series = <<>> /\ reqs[r].resp.status # 200)

\* asked for "A", the label of the option of component "a", on a file whose
\* rows of "a" are usable: no entry is returned
C21_Witness ==
    \E r \in ReqIds :
        /\ GotCsv(r)
        /\ reqs[r].disc = Str_A
        /\ IsLabelOnly(reqs[r].outcome.text, Str_A)
        /\ UsableMatching(reqs[r].outcome.text, Str_a) # {}
        /\ reqs[r].resp.series = <<>>
        /\ reqs[r].resp.status # 200

----------------------------------------------------------------------------
(* C22: the known components of the second pass *)

\* the distinct non-empty component values of the data rows of the file
NonEmptyComponents(text) ==
    {Cell(text, i, "component") : i \in RowIndices(text)} \ {None, <<>>}

\* a request whose first pass kept no row and whose second pass ran to its
\* end
SecondPassRan(r) ==
    /\ GotCsv(r)
    /\ reqs[r].resp.series = <<>>
    /\ reqs[r].resp.cause \in {"unknown", "nodata"}

\* C22: when the first pass keeps no row, the set all_components of the
\* second pass is the set of the distinct non-empty component values of all
\* data rows, the first one included.
C22_KnownComponentsAreAllNonEmpty ==
    \A r \in ReqIds :
        SecondPassRan(r) =>
            AllComponents(reqs[r].widget, reqs[r].outcome.text)
                = NonEmptyComponents(reqs[r].outcome.text)

----------------------------------------------------------------------------
(* C23: the outcomes of an extraction *)

\* the try block returned a series of at least one entry
EndsInSeries(r) ==
    /\ reqs[r].resp.exc = "none"
    /\ reqs[r].resp.series # <<>>

\* the try block raised the not-found HTTPException of the given cause
EndsInNotFound(r, cause) ==
    /\ reqs[r].resp.exc = "HTTPException"
    /\ reqs[r].resp.excStatus = 404
    /\ reqs[r].resp.cause = cause
    /\ reqs[r].resp.series = <<>>

\* C23: on a CSV with the required headers (the header-only file included)
\* the extraction ends in a non-empty series, in the "unknown discriminator"
\* not-found or in the "no usable data" not-found, and in nothing else.
C23_SeriesOrUnknownOrNoData ==
    \A r \in ReqIds :
        GotCsv(r) =>
            \/ EndsInSeries(r)
            \/ EndsInNotFound(r, "unknown")
            \/ EndsInNotFound(r, "nodata")

----------------------------------------------------------------------------
(* C24: the sample list of the "unknown discriminator" message *)

\* the component values of the data rows the second pass reads: those after
\* the first data row
KnownComponents(text) ==
    {Cell(text, i, "component") :
        i \in {j \in RowIndices(text) : \E k \in RowIndices(text) : k < j}} \ {None}

Min(a, b) == IF a < b THEN a ELSE b

\* C24: the "unknown discriminator" message lists min(5, N) distinct values
\* of the N known components, and ends in "..." exactly when N > 5.
C24_SampleIsFiveAtMost ==
    \A r \in ReqIds :
        LET known == KnownComponents(reqs[r].outcome.text)
            sample == reqs[r].resp.sample
        IN  (GotCsv(r) /\ reqs[r].resp.cause = "unknown")
                => /\ Len(sample) = Min(SampleMax, Cardinality(known))
                   /\ Cardinality(Range(sample)) = Len(sample)
                   /\ Range(sample) \subseteq known
                   /\ reqs[r].resp.more <=> (Cardinality(known) > SampleMax)

\* six known components: five are listed, followed by "..."
C24_Witness ==
    \E r \in ReqIds :
        /\ GotCsv(r)
        /\ reqs[r].resp.cause = "unknown"
        /\ Cardinality(KnownComponents(reqs[r].outcome.text)) = SampleMax + 1
        /\ Len(reqs[r].resp.sample) = SampleMax
        /\ reqs[r].resp.more

----------------------------------------------------------------------------
(* C25: the order of the checks of one request *)

\* the header can be read and lacks one of the three columns
HeaderLacksColumn(text) == ~FieldnamesRaise(text) /\ ~RequiredHeaders(text)

\* C25: the checks run in the order fetch, header, rows, empty result, and
\* the first that fails decides: a failed fetch is answered 503 and nothing
\* is parsed; a header that lacks a column gives the schema error before any
\* row is read, whatever the discriminator; a not-found cause or a series is
\* only given after the fetch succeeded, the header passed and every row was
\* read.
C25_FirstFailingCheckDecides ==
    \A r \in ReqIds :
        LET text == reqs[r].outcome.text
            resp == reqs[r].resp
        IN  Done(r) =>
                /\ ~reqs[r].outcome.ok =>
                       /\ resp.status = 503
                       /\ resp.exc = "RequestException"
                       /\ resp.cause = "fetch"
                       /\ resp.read = 0
                /\ (reqs[r].outcome.ok /\ HeaderLacksColumn(text)) =>
                       /\ resp.cause = "schema"
                       /\ resp.read = 0
                /\ (resp.cause \in {"unknown", "nodata"} \/ resp.series # <<>>) =>
                       /\ reqs[r].outcome.ok
                       /\ RequiredHeaders(text)
                       /\ resp.read = Len(DataLines(text))

\* a file without the count column asked for "A", the component of none of
\* its rows: the schema error, not the unknown discriminator
C25_Witness ==
    \E r \in ReqIds :
        /\ Done(r)
        /\ reqs[r].outcome.ok
        /\ HeaderLacksColumn(reqs[r].outcome.text)
        /\ RowIndices(reqs[r].outcome.text) # {}
        /\ "component" \in Range(Fieldnames(reqs[r].outcome.text))
        /\ Matching(reqs[r].outcome.text, reqs[r].disc) = {}
        /\ reqs[r].disc = Str_A
        /\ reqs[r].resp.cause = "schema"
        /\ reqs[r].resp.read = 0

----------------------------------------------------------------------------
(* C26: the three handlers are one pipeline *)

\* what the handler of widget w answers to the fetch result and the
\* discriminator of request r (the sample list left aside)
AnswerOf(w, r) == Handler(w, reqs[r].outcome, reqs[r].disc, <<>>)

\* C26: whatever a request fetched and was asked, the handlers of
\* ipo_index_widget, of consumer_confidence_widget and the endpoint_logic of
\* the format1 widgets answer with the same status, the same series and the
\* same cause.
C26_HandlersAgree ==
    \A r \in ReqIds :
        (Done(r) /\ Started(r)) =>
            \A w \in ParamWidgets :
                /\ AnswerOf(w, r).status = reqs[r].resp.status
                /\ AnswerOf(w, r).series = reqs[r].resp.series
                /\ AnswerOf(w, r).cause = reqs[r].resp.cause

\* a request to ipo_index_widget whose discriminator is the component of the
\* first data row only, with no count: the three handlers say "unknown"
C26_Witness ==
    \E r \in ReqIds :
        /\ GotCsv(r)
        /\ reqs[r].widget = "ipo_index_widget"
        /\ Matching(reqs[r].outcome.text, reqs[r].disc) = {2}
        /\ Len(reqs[r].outcome.text) = 3
        /\ reqs[r].resp.cause = "unknown"
        /\ AnswerOf("chemicals_widget", r).cause = "unknown"
        /\ AnswerOf("consumer_confidence_widget", r).cause = "unknown"

----------------------------------------------------------------------------
(* C27: the statuses, and the body of a 200 *)

\* C27: a parameterized widget endpoint answers with status 200, 404, 500 or
\* 503, and a 200 carries a series of at least one entry.
C27_No200WithEmptySeries ==
    \A r \in ReqIds :
        (Done(r) /\ Started(r)) =>
            /\ reqs[r].resp.status \in {200, 404, 500, 503}
            /\ reqs[r].resp.status = 200 => Len(reqs[r].resp.series) >= 1

\* rows of the discriminator none of which can be used: no entry was kept,
\* and the answer is not a 200
C27_Witness ==
    \E r \in ReqIds :
        /\ GotCsv(r)
        /\ Matching(reqs[r].outcome.text, reqs[r].disc) # {}
        /\ UsableMatching(reqs[r].outcome.text, reqs[r].disc) = {}
        /\ reqs[r].resp.series = <<>>
        /\ reqs[r].resp.status # 200

----------------------------------------------------------------------------
(* C28: the same request twice *)

\* requests r and q are answered, and fetched and were asked the same
SameInput(r, q) ==
    /\ Done(r) /\ Started(r)
    /\ Done(q) /\ Started(q)
    /\ reqs[r].outcome = reqs[q].outcome
    /\ reqs[r].disc = reqs[q].disc

\* C28: two requests that fetched the same and were asked for the same
\* discriminator get the same status, the same series and the same cause;
\* their sample lists may differ.
C28_SameInputSameResult ==
    \A r, q \in ReqIds :
        SameInput(r, q) =>
            /\ reqs[r].resp.status = reqs[q].resp.status
            /\ reqs[r].resp.series = reqs[q].resp.series
            /\ reqs[r].resp.cause = reqs[q].resp.cause
            /\ reqs[r].resp.exc = reqs[q].resp.exc

\* two requests for "A" on the same file, answered "unknown" with the two
\* known components listed in two orders
C28_Witness ==
    \E r, q \in ReqIds :
        /\ SameInput(r, q)
        /\ reqs[r].outcome = Fetched(RepeatFile)
        /\ reqs[r].resp.cause = "unknown"
        /\ reqs[r].resp.sample = <<Str_b, <<"c">>>>
        /\ reqs[q].resp.sample = <<<<"c">>, Str_b>>

----------------------------------------------------------------------------
(* C29: the filing_date of an entry *)

\* the k-th smallest member of a set of row indices
NthOf(S, k) == CHOOSE i \in S : Cardinality({j \in S : j <= i}) = k

\* C29: the filing_date of the k-th entry of a series is the filing_date
\* field of the k-th usable row of the discriminator, character by
\* character: strip() decides whether the row is kept and is not applied to
\* what is returned.
C29_FilingDateIsTheRawField ==
    \A r \in ReqIds :
        LET text == reqs[r].outcome.text
            rows == UsableMatching(text, reqs[r].disc)
        IN  (GotCsv(r) /\ reqs[r].resp.status = 200) =>
                /\ Len(reqs[r].resp.series) = Cardinality(rows)
                /\ \A k \in 1..Len(reqs[r].resp.series) :
                       reqs[r].resp.series[k].filing_date
                           = Cell(text, NthOf(rows, k), "filing_date")

\* the row (" d1 ", " 12 ", a): the date is returned with its blanks
C29_Witness ==
    \E r \in ReqIds :
        /\ GotCsv(r)
        /\ reqs[r].resp.status = 200
        /\ \E k \in 1..Len(reqs[r].resp.series) :
               /\ reqs[r].resp.series[k].filing_date = <<" ", "d", "1", " ">>
               /\ Strip(reqs[r].resp.series[k].filing_date) = Str_d1

----------------------------------------------------------------------------
(* C30: the registry under register_widget, and the decorated function *)

\* the config has an "endpoint" that "if endpoint:" takes
HasEndpoint(config) == "endpoint" \in DOMAIN config /\ config["endpoint"] # ""

\* the config as it is stored: with "id" set to the endpoint if it had none
Stored(config) ==
    [k \in (DOMAIN config) \cup {"id"} |->
        IF k \in DOMAIN config THEN config[k] ELSE config["endpoint"]]

\* C30: after any applications of register_widget every entry of WIDGETS
\* sits under its own "endpoint" and has an "id"; the last application left
\* WIDGETS as it was if its config had no endpoint, and else put its config
\* (with "id" set to the endpoint if it gave none) under that endpoint, in
\* the place of an earlier entry if there was one, and left the other
\* entries alone; a function the decorator returned gives what the function
\* it was applied to gives for the same arguments.
C30_RegistryKeyedByEndpoint ==
    /\ \A e \in DOMAIN WIDGETS :
           /\ WIDGETS[e]["endpoint"] = e
           /\ "id" \in DOMAIN WIDGETS[e]
    /\ LET config == registration.applied
           before == registration.before
       IN  config # NoConfig =>
               IF HasEndpoint(config)
               THEN /\ DOMAIN WIDGETS = (DOMAIN before) \cup {config["endpoint"]}
                    /\ WIDGETS[config["endpoint"]] = Stored(config)
                    /\ \A e \in (DOMAIN before) \ {config["endpoint"]} :
                           WIDGETS[e] = before[e]
               ELSE WIDGETS = before
    /\ LET call == registration.call
       IN  call.made =>
               call.result = Handler(call.widget, call.outcome, call.disc, call.order)

\* a second config for an endpoint that was registered took the place of
\* the first, its "id" defaulted to the endpoint, and a decorated function
\* was called
C30_Witness ==
    LET config == registration.applied
        before == registration.before
    IN  /\ config # NoConfig
        /\ HasEndpoint(config)
        /\ "id" \notin DOMAIN config
        /\ config["endpoint"] \in DOMAIN before
        /\ before[config["endpoint"]]["name"] = "First"
        /\ before[config["endpoint"]]["id"] = "custom"
        /\ WIDGETS[config["endpoint"]]["name"] = "Second"
        /\ WIDGETS[config["endpoint"]]["id"] = config["endpoint"]
        /\ Cardinality(DOMAIN WIDGETS) = 2
        /\ registration.call.made
        /\ registration.call.result.status = 200

====
